---- MODULE Spec2Model ----
(***************************************************************************)
(* Model of the authorization core of admin-panel-dashboard: the gate      *)
(* (protect, requirePermission, requireSuperAdmin), the token codec        *)
(* (generateAuthToken / jwt.verify), the revocation ledger                 *)
(* (BlacklistedToken), the lockout guard (incLoginAttempts,                *)
(* resetLoginAttempts), the permission resolver (allPermissions) and the   *)
(* audit sink (createAuditLog), with the controllers that drive them.      *)
(*                                                                         *)
(* Time is counted in hours.  A request (gate middlewares plus the route   *)
(* handler) is one atomic step.  Each route is an operator that maps the   *)
(* collections and the request to the collections after it and the         *)
(* response; the action of the route applies it.                           *)
(***************************************************************************)
EXTENDS Integers, Sequences, FiniteSets, TLC

\* ------------------------------------------------------------------ bounds
MaxTime == 4          \* the clock runs from 0 to MaxTime
MaxTokens == 2        \* tokens the clients keep for later requests
MaxIssue == 1         \* clients keep the tokens they are given before this hour
MaxAdditional == 1    \* longest additionalRoles list a request may build
ExpiresIn == 3        \* config.jwt.expiresIn (JWT_EXPIRE), in hours

\* ------------------------------------------------------- program constants
MaxAttempts == 5      \* incLoginAttempts: maxAttempts
LockTime == 2         \* incLoginAttempts: lockTime, 2 hours
SuperAdminLevel == 90 \* requireSuperAdmin: level < 90
HighSeverityFrom == 3 \* login: user.loginAttempts >= 3 ? 'high' : 'medium'
AuditRetention == 2160 \* AuditLog TTL index: expireAfterSeconds, 90 days in hours

Null == -1            \* a null Date (lockUntil, lastLogin)
Undefined == "undefined"
NoDoc == [tag |-> "none"]     \* findOne / findById found nothing
NoToken == [tag |-> "none"]   \* no token in the request / the response
NoRequired == [tag |-> "none"] \* no member 'required' in the answer

\* the slots of the requests the process serves at the same time
ReqIds == {"q1", "q2"}
Idle == [pc |-> "idle"]

Secret == "JWT_SECRET"        \* config.jwt.secret

\* ------------------------------------------------------------- collections
UserIds == {"u1", "u2", "u3"}
RoleIds == {"r_super", "r_editor", "r_user", "r_custom"}
Emails == {"e1", "e2", "e3"}
MixedCase == {"E3"}           \* the same address typed with a capital
EmailInputs == Emails \cup MixedCase
Passwords == {"pwA", "pwB"}
Statuses == {"active", "inactive", "suspended"}

\* Permission documents of the seeder, in creation order (name = resource:action).
PermNames == <<"user:create", "user:read", "user:update", "user:delete", "system:manage",
               "content:create", "content:read", "content:update">>

Range(s) == {s[i] : i \in 1..Len(s)}

Perms == Range(PermNames)

\* filter(p => names.includes(p.name)) over the created permissions: keeps creation order
FilterPerms(names) == SelectSeq(PermNames, LAMBDA p : p \in names)

VARIABLES
  now,        \* Date.now(), in hours
  users,      \* User collection: UserIds -> document or NoDoc
  roles,      \* Role collection: RoleIds -> document or NoDoc
  ledger,     \* BlacklistedToken collection: set of entries
  nextUser,   \* ids not yet handed out by the store (ObjectIds are never reused)
  held,       \* tokens the clients hold (issued earlier, kept for later requests)
  issuedFor,  \* history: held token -> principal and effective permissions at issuance
  revoked,    \* history: tokens that a revocation has inserted into the ledger
  fails,      \* history: per principal, consecutive failed password checks of login
  inflight,   \* per request slot: a request suspended at an await, or Idle
  auditLog    \* AuditLog collection: the records of the principals in Traced

vars ==
  <<now, users, roles, ledger, nextUser, held, issuedFor, revoked, fails, inflight,
    auditLog>>

\* ------------------------------------------------------------ store reads

\* the setter of lowercase: true, run on documents, query filters and updates
Lower(email) ==
  IF email = "E3" THEN "e3" ELSE email

\* User.findOne({ email }): the document with that email, or null
FindByEmail(email) ==
  LET hit == {u \in UserIds : users[u] # NoDoc /\ users[u].email = Lower(email)}
  IN IF hit = {} THEN NoDoc ELSE users[CHOOSE u \in hit : TRUE]

\* populate('role'): the referenced Role document, null when it no longer exists
PopulateRole(r) == IF roles[r] = NoDoc THEN NoDoc ELSE roles[r]

\* populate('additionalRoles'): the documents that still exist, in list order
RECURSIVE PopulateRoles(_)
PopulateRoles(rs) ==
  IF rs = <<>> THEN <<>>
  ELSE IF roles[Head(rs)] = NoDoc THEN PopulateRoles(Tail(rs))
       ELSE <<roles[Head(rs)]>> \o PopulateRoles(Tail(rs))

\* the pre(/^find/) hook: every find returns the user with its roles populated
Populate(doc) ==
  [doc EXCEPT !.role = PopulateRole(doc.role),
              !.additionalRoles = PopulateRoles(doc.additionalRoles)]

\* User.findById(id), populated; NoDoc when the principal does not exist
FindById(id) == IF users[id] = NoDoc THEN NoDoc ELSE Populate(users[id])

\* a document returned by User.create: role is still a bare ObjectId
Unpopulated(doc) ==
  [doc EXCEPT !.role = [tag |-> "ObjectId", ref |-> doc.role], !.additionalRoles = <<>>]

\* ---------------------------------------------------- permission resolver

\* buggy variant: an array push, no deduplication
SetAddNoDedup(s, x) == Append(s, x)

\* Set.prototype.add on a Set kept in insertion order
SetAdd(s, x) == IF x \in Range(s) THEN s ELSE Append(s, x)

\* role.permissions.forEach(perm => permissions.add(perm.name))
RECURSIVE AddNames(_, _)
AddNames(s, names) ==
  IF names = <<>> THEN s ELSE AddNames(SetAdd(s, Head(names)), Tail(names))

HasPermissionsField(r) == r # NoDoc /\ "permissions" \in DOMAIN r

\* this.additionalRoles.forEach(role => ...)
RECURSIVE AddRoles(_, _)
AddRoles(s, rs) ==
  IF rs = <<>> THEN s
  ELSE AddRoles(IF HasPermissionsField(Head(rs))
                  THEN AddNames(s, Head(rs).permissions) ELSE s,
                Tail(rs))

\* buggy variant: the additional roles are ignored
allPermissionsPrimaryOnly(pu) ==
  IF HasPermissionsField(pu.role) THEN AddNames(<<>>, pu.role.permissions) ELSE <<>>

\* the allPermissions virtual of a (populated or unpopulated) user document
allPermissions(pu) ==
  AddRoles(IF HasPermissionsField(pu.role)
             THEN AddNames(<<>>, pu.role.permissions) ELSE <<>>,
           pu.additionalRoles)

\* hasPermission: this.allPermissions.includes(permission)
hasPermission(pu, permission) == permission \in Range(allPermissions(pu))

\* buggy variant: every listed permission is demanded
hasAnyPermissionEvery(pu, permissions) ==
  \A i \in 1..Len(permissions) : hasPermission(pu, permissions[i])

\* hasAnyPermission: permissions.some(p => this.allPermissions.includes(p))
hasAnyPermission(pu, permissions) ==
  \E i \in 1..Len(permissions) : hasPermission(pu, permissions[i])

\* hasAllPermissions: permissions.every(p => this.allPermissions.includes(p))
hasAllPermissions(pu, permissions) ==
  \A i \in 1..Len(permissions) : hasPermission(pu, permissions[i])

\* ------------------------------------------------------------ lockout guard

\* buggy variant: a lock never takes effect
isLockedNever(doc) == FALSE

\* buggy variant: the lock still holds at the instant lockUntil is reached
isLockedInclusive(doc) == doc.lockUntil # Null /\ doc.lockUntil >= now

\* the isLocked virtual: !!(this.lockUntil && this.lockUntil > Date.now())
isLocked(doc) == doc.lockUntil # Null /\ doc.lockUntil > now

NoFields == [f \in {} |-> 0]

\* the schema default a missing path reads back as
SchemaDefault(f) == IF f = "loginAttempts" THEN 0 ELSE Null

\* document.updateOne(update) applied by the store to the stored document
ApplyUpdate(doc, upd) ==
  [f \in DOMAIN doc |->
     IF f \in upd.unset THEN SchemaDefault(f)
     ELSE IF f \in DOMAIN upd.set THEN upd.set[f]
     ELSE IF f \in DOMAIN upd.inc THEN doc[f] + upd.inc[f]
     ELSE doc[f]]

\* buggy variant: the lock is set one attempt late
incLoginAttemptsLate(this) ==
  IF this.lockUntil # Null /\ this.lockUntil < now
    THEN [unset |-> {"lockUntil"}, set |-> [loginAttempts |-> 1], inc |-> NoFields]
    ELSE [unset |-> {},
          set |-> IF this.loginAttempts >= MaxAttempts /\ ~isLocked(this)
                    THEN [lockUntil |-> now + LockTime] ELSE NoFields,
          inc |-> [loginAttempts |-> 1]]

\* buggy variant: a lapsed lock is not cleared, the old count goes on
incLoginAttemptsNoReset(this) ==
  [unset |-> {},
   set |-> IF this.loginAttempts + 1 >= MaxAttempts /\ ~isLocked(this)
             THEN [lockUntil |-> now + LockTime] ELSE NoFields,
   inc |-> [loginAttempts |-> 1]]

\* incLoginAttempts: the update computed from the document the request read
incLoginAttempts(this) ==
  IF this.lockUntil # Null /\ this.lockUntil < now
    THEN [unset |-> {"lockUntil"}, set |-> [loginAttempts |-> 1], inc |-> NoFields]
    ELSE [unset |-> {},
          set |-> IF this.loginAttempts + 1 >= MaxAttempts /\ ~isLocked(this)
                    THEN [lockUntil |-> now + LockTime] ELSE NoFields,
          inc |-> [loginAttempts |-> 1]]

\* buggy variant: the counter is reset but the lock is left in place
resetLoginAttemptsKeepLock ==
  [unset |-> {"loginAttempts"}, set |-> [lastLogin |-> now], inc |-> NoFields]

\* resetLoginAttempts
resetLoginAttempts ==
  [unset |-> {"loginAttempts", "lockUntil"}, set |-> [lastLogin |-> now], inc |-> NoFields]

\* ------------------------------------------------------------- token codec

\* bcrypt.hash / bcrypt.compare: an opaque one-way transform
Hash(pw) == <<"bcrypt", pw>>
comparePassword(doc, candidate) == doc.password = Hash(candidate)

\* jwt.sign(payload, secret, { expiresIn }): JSON drops an undefined member
JwtSign(id, email, roleName, permissions, secret) ==
  [payload |-> IF roleName = Undefined
                 THEN [id |-> id, email |-> email, permissions |-> permissions,
                       iat |-> now, exp |-> now + ExpiresIn]
                 ELSE [id |-> id, email |-> email, role |-> roleName,
                       permissions |-> permissions,
                       iat |-> now, exp |-> now + ExpiresIn],
   sig |-> secret]

\* this.role.name: a TypeError when the role is null, undefined on a bare ObjectId
RoleNameThrows(pu) == pu.role = NoDoc
RoleName(pu) == IF "name" \in DOMAIN pu.role THEN pu.role.name ELSE Undefined

\* buggy variant: the token carries the primary role's permissions only
generateAuthTokenPrimaryOnly(pu) ==
  JwtSign(pu.id, pu.email, RoleName(pu), allPermissionsPrimaryOnly(pu), Secret)

\* generateAuthToken (only where this.role is not null)
generateAuthToken(pu) ==
  JwtSign(pu.id, pu.email, RoleName(pu), allPermissions(pu), Secret)

\* buggy variant: a token past its expiry is reported like a bad signature
JwtVerifyExpiredAsInvalid(token, secret) ==
  IF "sig" \notin DOMAIN token \/ token.sig # secret
    THEN [error |-> "JsonWebTokenError", claims |-> NoDoc]
  ELSE IF now >= token.payload.exp
    THEN [error |-> "JsonWebTokenError", claims |-> NoDoc]
  ELSE [error |-> "none", claims |-> token.payload]

\* jwt.verify(token, secret): the claims, or the name of the error thrown
JwtVerify(token, secret) ==
  IF "sig" \notin DOMAIN token \/ token.sig # secret
    THEN [error |-> "JsonWebTokenError", claims |-> NoDoc]
  ELSE IF now >= token.payload.exp
    THEN [error |-> "TokenExpiredError", claims |-> NoDoc]
  ELSE [error |-> "none", claims |-> token.payload]

\* jwt.decode(token): the payload, unverified
JwtDecode(token) == token.payload

\* a token whose signature was not made with the secret
Forge(token) == [token EXCEPT !.sig = "forged"]

\* --------------------------------------------------------------- audit sink

NullId == "null"

\* AuditLog schema: enum of action, enum of resource
AuditActions ==
  {"login", "logout", "register", "password_change", "profile_update",
   "user_create", "user_update", "user_delete", "failed_login",
   "account_locked", "password_reset", "role_change", "status_change",
   "user_list_access", "user_profile_access", "user_stats_access",
   "access_denied"}
AuditResources == {"user", "auth", "system"}

\* buggy variant: the enum of action lacks access_denied
AuditValidNoAccessDenied(rec) ==
  /\ rec.userId # NullId
  /\ rec.action \in AuditActions \ {"access_denied"}
  /\ rec.resource \in AuditResources

\* AuditLog.create validation: userId is required, action and resource are enums
AuditValid(rec) ==
  /\ rec.userId # NullId
  /\ rec.action \in AuditActions
  /\ rec.resource \in AuditResources

NoAudit == [written |-> <<>>, threw |-> FALSE, called |-> FALSE]

\* buggy variant: a failed write is rethrown to the caller
createAuditLogRethrow(userId, action, resource, status, severity, storeOk) ==
  LET rec == [userId |-> userId, action |-> action, resource |-> resource,
              status |-> status, severity |-> severity]
  IN [written |-> IF storeOk /\ AuditValid(rec) THEN <<rec>> ELSE <<>>,
      threw |-> ~(storeOk /\ AuditValid(rec)), called |-> TRUE]

\* createAuditLog: try { await AuditLog.create(...) } catch { console.error }
\* storeOk: whether the audit store accepts the write
createAuditLog(userId, action, resource, status, severity, storeOk) ==
  LET rec == [userId |-> userId, action |-> action, resource |-> resource,
              status |-> status, severity |-> severity]
  IN [written |-> IF storeOk /\ AuditValid(rec) THEN <<rec>> ELSE <<>>,
      threw |-> FALSE, called |-> TRUE]

\* the principals whose audit records the model follows
Traced == {"u3"}

\* the documents AuditLog.create stores for these records (timestamps: createdAt)
Stamp(recs) ==
  {[userId |-> r.userId, action |-> r.action, resource |-> r.resource,
    status |-> r.status, severity |-> r.severity, createdAt |-> now] :
     r \in {x \in Range(recs) : x.userId \in Traced}}

\* buggy variant: the records of a principal go with the principal
PersistCascade(recs) ==
  {r \in auditLog : users'[r.userId] # NoDoc} \cup Stamp(recs)

\* the AuditLog collection after AuditLog.create of these records
Persist(recs) == auditLog \cup Stamp(recs)

\* ------------------------------------------------------- authorization gate

\* the Authorization header of a request
NoHeader == [scheme |-> "none", token |-> NoToken]
Headers ==
  {NoHeader}
    \cup {[scheme |-> "Bearer", token |-> t] : t \in held}
    \cup {[scheme |-> "Bearer", token |-> Forge(t)] : t \in held}
    \cup {[scheme |-> "Basic", token |-> t] : t \in held}

\* authorization.startsWith('Bearer') ? authorization.split(' ')[1] : undefined
ExtractToken(hdr) == IF hdr.scheme = "Bearer" THEN hdr.token ELSE NoToken

\* buggy variant: the ledger is never consulted
IsBlacklistedNever(token) == FALSE

\* BlacklistedToken.findOne({ token })
IsBlacklisted(token) == \E e \in ledger : e.token = token

\* the header of a client that sends a token it holds
BearerHeaders == {[scheme |-> "Bearer", token |-> t] : t \in held}

\* which store access of the gate fails, if any
StoreErrs == {"none", "ledger", "user"}

Denied(status, code, branch, cal, token) ==
  [pass |-> FALSE, status |-> status, code |-> code, branch |-> branch,
   user |-> NoDoc, token |-> token, audit |-> cal, required |-> NoRequired]

\* buggy variant: the catch block answers with a code of its own
ProtectCaughtCoded(token, cal) == Denied(401, "AUTH_ERROR", "error", cal, token)

\* the catch block of protect, for an error that is not a JWT error
ProtectCaught(token, cal) == Denied(401, "", "error", cal, token)

\* an audited denial of protect: a throwing audit lands in the catch block
ProtectAudited(status, code, branch, cal, token) ==
  IF cal.threw THEN ProtectCaught(token, cal)
  ELSE Denied(status, code, branch, cal, token)

\* buggy variant: the token is verified before the ledger is consulted
protectVerifyFirst(hdr, storeErr, storeOk) ==
  LET token == ExtractToken(hdr) IN
  IF token = NoToken THEN Denied(401, "", "no_token", NoAudit, token)
  ELSE LET v == JwtVerify(token, Secret) IN
  IF v.error = "TokenExpiredError"
    THEN Denied(401, "TOKEN_EXPIRED", "expired", NoAudit, token)
  ELSE IF v.error = "JsonWebTokenError"
    THEN Denied(401, "TOKEN_INVALID", "invalid", NoAudit, token)
  ELSE IF storeErr = "ledger" THEN ProtectCaught(token, NoAudit)
  ELSE IF IsBlacklisted(token)
    THEN Denied(401, "TOKEN_BLACKLISTED", "blacklisted", NoAudit, token)
  ELSE IF storeErr = "user" THEN ProtectCaught(token, NoAudit)
  ELSE LET user == FindById(v.claims.id) IN
  IF user = NoDoc
    THEN ProtectAudited(401, "", "user_not_found",
           createAuditLog(v.claims.id, "failed_login", "auth", "failure", "high", storeOk),
           token)
  ELSE IF user.status # "active"
    THEN ProtectAudited(401, "", "account_inactive",
           createAuditLog(user.id, "failed_login", "auth", "failure", "medium", storeOk),
           token)
  ELSE IF isLocked(user)
    THEN ProtectAudited(423, "ACCOUNT_LOCKED", "account_locked",
           createAuditLog(user.id, "failed_login", "auth", "failure", "medium", storeOk),
           token)
  ELSE [pass |-> TRUE, status |-> 0, code |-> "", branch |-> "next",
        user |-> user, token |-> token, audit |-> NoAudit, required |-> NoRequired]

\* buggy variant: a token whose principal is not in the store is let through with
\* a principal made from its claims
protectFromClaims(hdr, storeErr, storeOk) ==
  LET token == ExtractToken(hdr) IN
  IF token = NoToken THEN Denied(401, "", "no_token", NoAudit, token)
  ELSE IF storeErr = "ledger" THEN ProtectCaught(token, NoAudit)
  ELSE IF IsBlacklisted(token)
    THEN Denied(401, "TOKEN_BLACKLISTED", "blacklisted", NoAudit, token)
  ELSE LET v == JwtVerify(token, Secret) IN
  IF v.error = "TokenExpiredError"
    THEN Denied(401, "TOKEN_EXPIRED", "expired", NoAudit, token)
  ELSE IF v.error = "JsonWebTokenError"
    THEN Denied(401, "TOKEN_INVALID", "invalid", NoAudit, token)
  ELSE IF storeErr = "user" THEN ProtectCaught(token, NoAudit)
  ELSE LET found == FindById(v.claims.id)
           user == IF found # NoDoc THEN found
                   ELSE [id |-> v.claims.id, email |-> "", password |-> "", role |-> NoDoc,
                         additionalRoles |-> <<>>, status |-> "active",
                         loginAttempts |-> 0, lockUntil |-> Null, lastLogin |-> Null]
       IN
  IF user.status # "active"
    THEN ProtectAudited(401, "", "account_inactive",
           createAuditLog(user.id, "failed_login", "auth", "failure", "medium", storeOk),
           token)
  ELSE IF isLocked(user)
    THEN ProtectAudited(423, "ACCOUNT_LOCKED", "account_locked",
           createAuditLog(user.id, "failed_login", "auth", "failure", "medium", storeOk),
           token)
  ELSE [pass |-> TRUE, status |-> 0, code |-> "", branch |-> "next",
        user |-> user, token |-> token, audit |-> NoAudit, required |-> NoRequired]

\* protect(req, res, next)
protect(hdr, storeErr, storeOk) ==
  LET token == ExtractToken(hdr) IN
  IF token = NoToken THEN Denied(401, "", "no_token", NoAudit, token)
  ELSE IF storeErr = "ledger" THEN ProtectCaught(token, NoAudit)
  ELSE IF IsBlacklisted(token)
    THEN Denied(401, "TOKEN_BLACKLISTED", "blacklisted", NoAudit, token)
  ELSE LET v == JwtVerify(token, Secret) IN
  IF v.error = "TokenExpiredError"
    THEN Denied(401, "TOKEN_EXPIRED", "expired", NoAudit, token)
  ELSE IF v.error = "JsonWebTokenError"
    THEN Denied(401, "TOKEN_INVALID", "invalid", NoAudit, token)
  ELSE IF storeErr = "user" THEN ProtectCaught(token, NoAudit)
  ELSE LET user == FindById(v.claims.id) IN
  IF user = NoDoc
    THEN ProtectAudited(401, "", "user_not_found",
           createAuditLog(v.claims.id, "failed_login", "auth", "failure", "high", storeOk),
           token)
  ELSE IF user.status # "active"
    THEN ProtectAudited(401, "", "account_inactive",
           createAuditLog(user.id, "failed_login", "auth", "failure", "medium", storeOk),
           token)
  ELSE IF isLocked(user)
    THEN ProtectAudited(423, "ACCOUNT_LOCKED", "account_locked",
           createAuditLog(user.id, "failed_login", "auth", "failure", "medium", storeOk),
           token)
  ELSE [pass |-> TRUE, status |-> 0, code |-> "", branch |-> "next",
        user |-> user, token |-> token, audit |-> NoAudit, required |-> NoRequired]

\* an async middleware without try/catch that throws: the promise is rejected,
\* nothing answers the request
Unanswered(g, cal) ==
  [g EXCEPT !.pass = FALSE, !.status = 0, !.code = "", !.branch = "unhandled_rejection",
            !.audit = cal]

\* buggy variant: the permission is looked up in the token's claims
requirePermissionFromToken(g, permission, storeOk) ==
  IF ~g.pass THEN g
  ELSE IF permission \notin Range(JwtDecode(g.token).permissions)
    THEN LET cal == createAuditLog(g.user.id, "access_denied", "auth", "failure", "high", storeOk)
         IN IF cal.threw THEN Unanswered(g, cal)
            ELSE [g EXCEPT !.pass = FALSE, !.status = 403,
                           !.code = "INSUFFICIENT_PERMISSIONS",
                           !.branch = "insufficient_permissions", !.audit = cal,
                           !.required = [name |-> permission]]
  ELSE g

\* requirePermission(permission), after protect has answered g
requirePermission(g, permission, storeOk) ==
  IF ~g.pass THEN g
  ELSE IF ~hasPermission(g.user, permission)
    THEN LET cal == createAuditLog(g.user.id, "access_denied", "auth", "failure", "high", storeOk)
         IN IF cal.threw THEN Unanswered(g, cal)
            ELSE [g EXCEPT !.pass = FALSE, !.status = 403,
                           !.code = "INSUFFICIENT_PERMISSIONS",
                           !.branch = "insufficient_permissions", !.audit = cal,
                           !.required = [name |-> permission]]
  ELSE g

\* requireAnyPermission(permissions), after protect has answered g
requireAnyPermission(g, permissions, storeOk) ==
  IF ~g.pass THEN g
  ELSE IF ~hasAnyPermission(g.user, permissions)
    THEN LET cal == createAuditLog(g.user.id, "access_denied", "auth", "failure", "high", storeOk)
         IN IF cal.threw THEN Unanswered(g, cal)
            ELSE [g EXCEPT !.pass = FALSE, !.status = 403,
                           !.code = "INSUFFICIENT_PERMISSIONS",
                           !.branch = "insufficient_permissions", !.audit = cal,
                           !.required = [names |-> permissions]]
  ELSE g

\* requireAllPermissions(permissions), after protect has answered g
requireAllPermissions(g, permissions, storeOk) ==
  IF ~g.pass THEN g
  ELSE IF ~hasAllPermissions(g.user, permissions)
    THEN LET cal == createAuditLog(g.user.id, "access_denied", "auth", "failure", "high", storeOk)
         IN IF cal.threw THEN Unanswered(g, cal)
            ELSE [g EXCEPT !.pass = FALSE, !.status = 403,
                           !.code = "INSUFFICIENT_PERMISSIONS",
                           !.branch = "insufficient_permissions", !.audit = cal,
                           !.required = [names |-> permissions]]
  ELSE g

\* restrictTo(...roleNames), after protect has answered g: req.user.role.name
\* throws when the role is null
restrictTo(g, roleNames, storeOk) ==
  IF ~g.pass THEN g
  ELSE IF RoleNameThrows(g.user) THEN Unanswered(g, NoAudit)
  ELSE IF RoleName(g.user) \notin Range(roleNames)
    THEN LET cal == createAuditLog(g.user.id, "access_denied", "auth", "failure", "high", storeOk)
         IN IF cal.threw THEN Unanswered(g, cal)
            ELSE [g EXCEPT !.pass = FALSE, !.status = 403,
                           !.code = "INSUFFICIENT_ROLE",
                           !.branch = "insufficient_role", !.audit = cal]
  ELSE g

\* requireSuperAdmin, after protect has answered g
requireSuperAdmin(g, storeOk) ==
  IF ~g.pass THEN g
  ELSE IF g.user.role = NoDoc THEN Unanswered(g, NoAudit)
  ELSE IF g.user.role.level < SuperAdminLevel
    THEN LET cal == createAuditLog(g.user.id, "access_denied", "auth", "failure", "critical", storeOk)
         IN IF cal.threw THEN Unanswered(g, cal)
            ELSE [g EXCEPT !.pass = FALSE, !.status = 403,
                           !.code = "REQUIRES_SUPER_ADMIN",
                           !.branch = "requires_super_admin", !.audit = cal]
  ELSE g

\* -------------------------------------------------------------- controllers

\* what a request did: the collections after it, and what the caller saw
Out(us, rs, lg, g, handler, status, code, branch, token, cal) ==
  [users |-> us, roles |-> rs, ledger |-> lg,
   gate |-> g.branch, handler |-> handler,
   status |-> status, code |-> code, branch |-> branch,
   token |-> token, reqToken |-> g.token,
   principal |-> IF g.pass THEN g.user.id ELSE NullId,
   audits |-> cal.written, awaited |-> cal.called, message |-> ""]

\* APIResponse.error(res, message, status): the message of the answer, in words
WithMessage(o, message) == [o EXCEPT !.message = message]

\* a public route: no gate in front of the handler
Public == [pass |-> FALSE, status |-> 0, code |-> "", branch |-> "public",
           user |-> NoDoc, token |-> NoToken, audit |-> NoAudit, required |-> NoRequired]

\* the gate answered the request itself
GateOut(g) ==
  Out(users, roles, ledger, g, FALSE, g.status, g.code, g.branch, NoToken, g.audit)

\* a handler's answer after its audit call: a throwing audit goes to next(error)
Answer(us, rs, lg, g, status, branch, token, cal) ==
  IF cal.threw
    THEN Out(us, rs, lg, g, TRUE, 500, "", "error", NoToken, cal)
    ELSE Out(us, rs, lg, g, TRUE, status, "", branch, token, cal)

\* next(error) with a TypeError: the default branch of errorHandler
ServerError(us, rs, lg, g) ==
  Out(us, rs, lg, g, TRUE, 500, "", "error", NoToken, NoAudit)

SetUser(id, doc) == [users EXCEPT ![id] = doc]

\* buggy variant: the password is compared before the status is tested
loginPasswordFirst(email, password, storeOk) ==
  LET found == FindByEmail(email)
      g == Public
  IN
  IF found = NoDoc
    THEN Answer(users, roles, ledger, g, 401, "user_not_found", NoToken,
           createAuditLog(NullId, "failed_login", "auth", "failure", "medium", storeOk))
  ELSE LET user == Populate(found) IN
  IF isLocked(user)
    THEN Answer(users, roles, ledger, g, 423, "account_locked", NoToken,
           createAuditLog(user.id, "failed_login", "auth", "failure", "medium", storeOk))
  ELSE IF ~comparePassword(user, password)
    THEN Answer(SetUser(user.id, ApplyUpdate(users[user.id], incLoginAttempts(user))),
           roles, ledger, g, 401, "invalid_password", NoToken,
           createAuditLog(user.id, "failed_login", "auth", "failure",
             IF user.loginAttempts >= HighSeverityFrom THEN "high" ELSE "medium", storeOk))
  ELSE IF user.status # "active"
    THEN Answer(users, roles, ledger, g, 401, "account_inactive", NoToken,
           createAuditLog(user.id, "failed_login", "auth", "failure", "medium", storeOk))
  ELSE LET us == SetUser(user.id, ApplyUpdate(users[user.id], resetLoginAttempts)) IN
  IF RoleNameThrows(user) THEN ServerError(us, roles, ledger, g)
  ELSE Answer(us, roles, ledger, g, 200, "ok", generateAuthToken(user),
         createAuditLog(user.id, "login", "auth", "success", "low", storeOk))

\* buggy variant: an attempt made during the lock window is counted as a failure
loginCountsWhileLocked(email, password, storeOk) ==
  LET found == FindByEmail(email)
      g == Public
  IN
  IF found = NoDoc
    THEN Answer(users, roles, ledger, g, 401, "user_not_found", NoToken,
           createAuditLog(NullId, "failed_login", "auth", "failure", "medium", storeOk))
  ELSE LET user == Populate(found) IN
  IF isLocked(user)
    THEN Answer(SetUser(user.id, ApplyUpdate(users[user.id], incLoginAttempts(user))),
           roles, ledger, g, 423, "account_locked", NoToken,
           createAuditLog(user.id, "failed_login", "auth", "failure", "medium", storeOk))
  ELSE IF user.status # "active"
    THEN Answer(users, roles, ledger, g, 401, "account_inactive", NoToken,
           createAuditLog(user.id, "failed_login", "auth", "failure", "medium", storeOk))
  ELSE IF ~comparePassword(user, password)
    THEN Answer(SetUser(user.id, ApplyUpdate(users[user.id], incLoginAttempts(user))),
           roles, ledger, g, 401, "invalid_password", NoToken,
           createAuditLog(user.id, "failed_login", "auth", "failure",
             IF user.loginAttempts >= HighSeverityFrom THEN "high" ELSE "medium", storeOk))
  ELSE LET us == SetUser(user.id, ApplyUpdate(users[user.id], resetLoginAttempts)) IN
  IF RoleNameThrows(user) THEN ServerError(us, roles, ledger, g)
  ELSE Answer(us, roles, ledger, g, 200, "ok", generateAuthToken(user),
         createAuditLog(user.id, "login", "auth", "success", "low", storeOk))

\* exports.login
login(email, password, storeOk) ==
  LET found == FindByEmail(email)
      g == Public
  IN
  IF found = NoDoc
    THEN Answer(users, roles, ledger, g, 401, "user_not_found", NoToken,
           createAuditLog(NullId, "failed_login", "auth", "failure", "medium", storeOk))
  ELSE LET user == Populate(found) IN
  IF isLocked(user)
    THEN Answer(users, roles, ledger, g, 423, "account_locked", NoToken,
           createAuditLog(user.id, "failed_login", "auth", "failure", "medium", storeOk))
  ELSE IF user.status # "active"
    THEN Answer(users, roles, ledger, g, 401, "account_inactive", NoToken,
           createAuditLog(user.id, "failed_login", "auth", "failure", "medium", storeOk))
  ELSE IF ~comparePassword(user, password)
    THEN Answer(SetUser(user.id, ApplyUpdate(users[user.id], incLoginAttempts(user))),
           roles, ledger, g, 401, "invalid_password", NoToken,
           createAuditLog(user.id, "failed_login", "auth", "failure",
             IF user.loginAttempts >= HighSeverityFrom THEN "high" ELSE "medium", storeOk))
  ELSE LET us == SetUser(user.id, ApplyUpdate(users[user.id], resetLoginAttempts)) IN
  IF RoleNameThrows(user) THEN ServerError(us, roles, ledger, g)
  ELSE Answer(us, roles, ledger, g, 200, "ok", generateAuthToken(user),
         createAuditLog(user.id, "login", "auth", "success", "low", storeOk))

\* the document User.create stores
NewUser(id, email, password, role) ==
  [id |-> id, email |-> Lower(email), password |-> Hash(password), role |-> role,
   additionalRoles |-> <<>>, status |-> "active",
   loginAttempts |-> 0, lockUntil |-> Null, lastLogin |-> Null]

\* Role.findOne({ name })
FindRoleByName(name) ==
  LET hit == {r \in RoleIds : roles[r] # NoDoc /\ roles[r].name = name}
  IN IF hit = {} THEN NoDoc ELSE roles[CHOOSE r \in hit : TRUE]

\* the role argument of register: absent, or the id of a role document or of none
RoleArgs == RoleIds \cup {Undefined}

\* exports.register; id is the ObjectId the store gives the new document
register(id, email, password, role, storeOk) ==
  LET g == Public IN
  IF FindByEmail(email) # NoDoc
    THEN Out(users, roles, ledger, g, TRUE, 400, "", "email_exists", NoToken, NoAudit)
  ELSE LET userRole == IF role # Undefined THEN roles[role] ELSE FindRoleByName("user") IN
  IF userRole = NoDoc
    THEN Out(users, roles, ledger, g, TRUE, IF role # Undefined THEN 400 ELSE 500, "",
             "role_not_found", NoToken, NoAudit)
  ELSE LET doc == NewUser(id, email, password, userRole.id) IN
       Answer(SetUser(id, doc), roles, ledger, g, 201, "ok",
              generateAuthToken(Unpopulated(doc)),
              createAuditLog(id, "register", "user", "success", "low", storeOk))

\* buggy variant: the entry expires at the moment of the revocation
RevokeShortLived(token, userId, reason) ==
  [duplicate |-> IsBlacklisted(token),
   ledger |-> IF IsBlacklisted(token) THEN ledger
              ELSE ledger \cup {[token |-> token, userId |-> userId, reason |-> reason,
                                 expiresAt |-> now]}]

\* BlacklistedToken.create: the unique index on token rejects a second entry
Revoke(token, userId, reason) ==
  [duplicate |-> IsBlacklisted(token),
   ledger |-> IF IsBlacklisted(token) THEN ledger
              ELSE ledger \cup {[token |-> token, userId |-> userId, reason |-> reason,
                                 expiresAt |-> JwtDecode(token).exp]}]

\* errorHandler: a duplicate key error (code 11000) is answered 400
DuplicateKey(g) ==
  Out(users, roles, ledger, g, TRUE, 400, "", "duplicate_key", NoToken, NoAudit)

\* exports.logout
logoutHandler(g, storeOk) ==
  LET rv == Revoke(g.token, g.user.id, "logout") IN
  IF rv.duplicate THEN DuplicateKey(g)
  ELSE Answer(users, roles, rv.ledger, g, 200, "ok", NoToken,
         createAuditLog(g.user.id, "logout", "auth", "success", "low", storeOk))

\* POST /auth/logout: protect, then the handler
logout(hdr, storeErr, storeOk) ==
  LET g == protect(hdr, storeErr, storeOk) IN
  IF ~g.pass THEN GateOut(g) ELSE logoutHandler(g, storeOk)

\* exports.forceLogoutAll
forceLogoutAllHandler(g, storeOk) ==
  LET rv == Revoke(g.token, g.user.id, "force_logout") IN
  IF rv.duplicate THEN DuplicateKey(g)
  ELSE Answer(users, roles, rv.ledger, g, 200, "ok", NoToken,
         createAuditLog(g.user.id, "logout", "auth", "success", "medium", storeOk))

\* POST /auth/logout-all: protect, then the handler
forceLogoutAll(hdr, storeErr, storeOk) ==
  LET g == protect(hdr, storeErr, storeOk) IN
  IF ~g.pass THEN GateOut(g) ELSE forceLogoutAllHandler(g, storeOk)

\* exports.changePassword
changePasswordHandler(g, currentPassword, newPassword, storeOk) ==
  LET user == FindById(g.user.id) IN
  IF user = NoDoc THEN ServerError(users, roles, ledger, g)
  ELSE IF ~comparePassword(user, currentPassword)
    THEN Answer(users, roles, ledger, g, 400, "incorrect_current_password", NoToken,
           createAuditLog(user.id, "password_change", "auth", "failure", "high", storeOk))
  ELSE LET us == SetUser(user.id, [users[user.id] EXCEPT !.password = Hash(newPassword)])
           rv == Revoke(g.token, user.id, "password_change") IN
  IF rv.duplicate THEN Out(us, roles, ledger, g, TRUE, 400, "", "duplicate_key", NoToken, NoAudit)
  ELSE Answer(us, roles, rv.ledger, g, 200, "ok", NoToken,
         createAuditLog(user.id, "password_change", "auth", "success", "medium", storeOk))

\* PUT /auth/change-password: protect, then the handler
changePassword(hdr, storeErr, currentPassword, newPassword, storeOk) ==
  LET g == protect(hdr, storeErr, storeOk) IN
  IF ~g.pass THEN GateOut(g)
  ELSE changePasswordHandler(g, currentPassword, newPassword, storeOk)

\* exports.getProfile
getProfile(hdr, storeErr, storeOk) ==
  LET g == protect(hdr, storeErr, storeOk) IN
  IF ~g.pass THEN GateOut(g)
  ELSE IF FindById(g.user.id) = NoDoc
    THEN Out(users, roles, ledger, g, TRUE, 404, "", "not_found", NoToken, NoAudit)
  ELSE Out(users, roles, ledger, g, TRUE, 200, "", "ok", NoToken, NoAudit)

\* exports.getAllUsers behind requirePermission('user:read')
getAllUsers(hdr, storeErr, storeOk) ==
  LET g == requirePermission(protect(hdr, storeErr, storeOk), "user:read", storeOk) IN
  IF ~g.pass THEN GateOut(g)
  ELSE Answer(users, roles, ledger, g, 200, "ok", NoToken,
         createAuditLog(g.user.id, "user_list_access", "user", "success", "low", storeOk))

\* exports.updateUser behind requirePermission('user:update'), with a status in the body
updateUser(hdr, storeErr, id, status, storeOk) ==
  LET g == requirePermission(protect(hdr, storeErr, storeOk), "user:update", storeOk) IN
  IF ~g.pass THEN GateOut(g)
  ELSE IF FindById(id) = NoDoc
    THEN Out(users, roles, ledger, g, TRUE, 404, "", "not_found", NoToken, NoAudit)
  ELSE Answer(SetUser(id, [users[id] EXCEPT !.status = status]), roles, ledger, g,
         200, "ok", NoToken,
         createAuditLog(g.user.id, "user_update", "user", "success", "medium", storeOk))

\* buggy variant: the collection has no unique index on email
EmailTakenNever(id, email) == FALSE

\* the unique index on email (unique: true): another document holds the value
EmailTaken(id, email) ==
  \E u \in UserIds \ {id} : users[u] # NoDoc /\ users[u].email = email

\* exports.updateUser behind requirePermission('user:update'), for a body that
\* holds an email only
updateUserEmail(hdr, storeErr, id, email, storeOk) ==
  LET g == requirePermission(protect(hdr, storeErr, storeOk), "user:update", storeOk) IN
  IF ~g.pass THEN GateOut(g)
  ELSE IF FindById(id) = NoDoc
    THEN Out(users, roles, ledger, g, TRUE, 404, "", "not_found", NoToken, NoAudit)
  ELSE IF \E u \in UserIds \ {id} : users[u] # NoDoc /\ users[u].email = Lower(email)
    THEN Out(users, roles, ledger, g, TRUE, 400, "", "email_exists", NoToken, NoAudit)
  ELSE IF EmailTaken(id, Lower(email)) THEN DuplicateKey(g)
  ELSE Answer(SetUser(id, [users[id] EXCEPT !.email = Lower(email)]), roles, ledger, g,
         200, "ok", NoToken,
         createAuditLog(g.user.id, "user_update", "user", "success", "medium", storeOk))

\* exports.createUser behind requirePermission('user:create'); id is the ObjectId
\* the store gives the new document
createUser(hdr, storeErr, id, email, password, role, storeOk) ==
  LET g == requirePermission(protect(hdr, storeErr, storeOk), "user:create", storeOk) IN
  IF ~g.pass THEN GateOut(g)
  ELSE IF FindByEmail(email) # NoDoc
    THEN Out(users, roles, ledger, g, TRUE, 400, "", "email_exists", NoToken, NoAudit)
  ELSE IF roles[role] = NoDoc
    THEN Out(users, roles, ledger, g, TRUE, 400, "", "role_not_found", NoToken, NoAudit)
  ELSE IF EmailTaken(id, Lower(email)) THEN DuplicateKey(g)
  ELSE Answer(SetUser(id, NewUser(id, email, password, role)), roles, ledger, g,
         201, "ok", NoToken,
         createAuditLog(g.user.id, "user_create", "user", "success", "medium", storeOk))

\* exports.updateProfile, for a body that holds an email
updateProfile(hdr, storeErr, email, storeOk) ==
  LET g == protect(hdr, storeErr, storeOk) IN
  IF ~g.pass THEN GateOut(g)
  ELSE IF FindById(g.user.id) = NoDoc
    THEN Out(users, roles, ledger, g, TRUE, 404, "", "not_found", NoToken, NoAudit)
  ELSE IF email # g.user.email /\ FindByEmail(email) # NoDoc
    THEN Out(users, roles, ledger, g, TRUE, 400, "", "email_exists", NoToken, NoAudit)
  ELSE IF EmailTaken(g.user.id, Lower(email)) THEN DuplicateKey(g)
  ELSE Answer(SetUser(g.user.id, [users[g.user.id] EXCEPT !.email = Lower(email)]),
         roles, ledger, g, 200, "ok", NoToken,
         createAuditLog(g.user.id, "profile_update", "user", "success", "low", storeOk))

\* exports.assignRole behind requirePermission('user:update')
assignRole(hdr, storeErr, id, roleId, storeOk) ==
  LET g == requirePermission(protect(hdr, storeErr, storeOk), "user:update", storeOk) IN
  IF ~g.pass THEN GateOut(g)
  ELSE LET user == FindById(id) IN
  IF user = NoDoc
    THEN Out(users, roles, ledger, g, TRUE, 404, "", "not_found", NoToken, NoAudit)
  ELSE IF roles[roleId] = NoDoc
    THEN Out(users, roles, ledger, g, TRUE, 400, "", "invalid_role", NoToken, NoAudit)
  ELSE LET us == SetUser(id, [users[id] EXCEPT !.role = roleId]) IN
  \* oldRole.name in the arguments of the audit call
  IF user.role = NoDoc THEN ServerError(us, roles, ledger, g)
  ELSE Answer(us, roles, ledger, g, 200, "ok", NoToken,
         createAuditLog(g.user.id, "user_role_change", "user", "success", "high", storeOk))

\* MongooseArray.includes(roleId): a string equals an ObjectId element with that
\* value and no populated document
IncludesId(arr, roleId) ==
  \E i \in 1..Len(arr) : "tag" \in DOMAIN arr[i] /\ arr[i].tag = "ObjectId" /\ arr[i].ref = roleId

\* exports.addAdditionalRole behind requirePermission('user:update')
addAdditionalRole(hdr, storeErr, id, roleId, storeOk) ==
  LET g == requirePermission(protect(hdr, storeErr, storeOk), "user:update", storeOk) IN
  IF ~g.pass THEN GateOut(g)
  ELSE LET user == FindById(id) IN
  IF user = NoDoc
    THEN Out(users, roles, ledger, g, TRUE, 404, "", "not_found", NoToken, NoAudit)
  ELSE IF roles[roleId] = NoDoc
    THEN Out(users, roles, ledger, g, TRUE, 400, "", "invalid_role", NoToken, NoAudit)
  \* user.role.toString() === roleId: a TypeError on a null role; the string of a
  \* populated document is never the id
  ELSE IF user.role = NoDoc THEN ServerError(users, roles, ledger, g)
  ELSE IF IncludesId(user.additionalRoles, roleId)
    THEN Out(users, roles, ledger, g, TRUE, 400, "", "already_assigned", NoToken, NoAudit)
  ELSE Answer(SetUser(id, [users[id] EXCEPT !.additionalRoles = Append(@, roleId)]),
         roles, ledger, g, 200, "ok", NoToken,
         createAuditLog(g.user.id, "user_additional_role_add", "user", "success", "medium",
                        storeOk))

\* exports.removeAdditionalRole behind requirePermission('user:update')
removeAdditionalRole(hdr, storeErr, id, roleId, storeOk) ==
  LET g == requirePermission(protect(hdr, storeErr, storeOk), "user:update", storeOk) IN
  IF ~g.pass THEN GateOut(g)
  ELSE LET user == FindById(id) IN
  IF user = NoDoc
    THEN Out(users, roles, ledger, g, TRUE, 404, "", "not_found", NoToken, NoAudit)
  ELSE IF ~IncludesId(user.additionalRoles, roleId)
    THEN Out(users, roles, ledger, g, TRUE, 400, "", "not_assigned", NoToken, NoAudit)
  ELSE Answer(SetUser(id, [users[id] EXCEPT
                 !.additionalRoles = SelectSeq(@, LAMBDA r : r # roleId)]),
         roles, ledger, g, 200, "ok", NoToken,
         createAuditLog(g.user.id, "user_additional_role_remove", "user", "success", "medium",
                        storeOk))

\* exports.deleteUser behind requirePermission('user:delete')
deleteUser(hdr, storeErr, id, storeOk) ==
  LET g == requirePermission(protect(hdr, storeErr, storeOk), "user:delete", storeOk) IN
  IF ~g.pass THEN GateOut(g)
  ELSE IF id = g.user.id
    THEN Out(users, roles, ledger, g, TRUE, 400, "", "own_account", NoToken, NoAudit)
  ELSE LET user == FindById(id) IN
  IF user = NoDoc
    THEN Out(users, roles, ledger, g, TRUE, 404, "", "not_found", NoToken, NoAudit)
  \* user.role.name in the arguments of the audit call
  ELSE IF user.role = NoDoc THEN ServerError(SetUser(id, NoDoc), roles, ledger, g)
  ELSE Answer(SetUser(id, NoDoc), roles, ledger, g, 200, "ok", NoToken,
         createAuditLog(g.user.id, "user_delete", "user", "success", "high", storeOk))

\* the permission lists a request may carry: existing permissions, none twice
PermLists ==
  {<<>>, <<"content:read">>, <<"user:read", "content:read">>,
   FilterPerms({"user:read", "user:update", "content:read"})}

\* exports.assignPermissions behind requirePermission('system:manage')
assignPermissions(hdr, storeErr, roleId, permissions, storeOk) ==
  LET g == requirePermission(protect(hdr, storeErr, storeOk), "system:manage", storeOk) IN
  IF ~g.pass THEN GateOut(g)
  ELSE IF roles[roleId] = NoDoc
    THEN Out(users, roles, ledger, g, TRUE, 404, "", "not_found", NoToken, NoAudit)
  ELSE IF Cardinality(Range(permissions) \cap Perms) # Len(permissions)
    THEN Out(users, roles, ledger, g, TRUE, 400, "", "invalid_permissions", NoToken, NoAudit)
  ELSE Answer(users, [roles EXCEPT ![roleId].permissions = permissions], ledger, g,
         200, "ok", NoToken,
         createAuditLog(g.user.id, "role_permissions_update", "system", "success", "high",
                        storeOk))

\* the levels a request may give a role
Levels == {20, 95}

\* exports.updateRole behind requirePermission('system:manage'); of the fields it
\* writes, permissions and level are the ones a decision reads
updateRole(hdr, storeErr, roleId, permissions, level, storeOk) ==
  LET g == requirePermission(protect(hdr, storeErr, storeOk), "system:manage", storeOk) IN
  IF ~g.pass THEN GateOut(g)
  ELSE IF roles[roleId] = NoDoc
    THEN Out(users, roles, ledger, g, TRUE, 404, "", "not_found", NoToken, NoAudit)
  ELSE IF roles[roleId].isSystemRole
    THEN WithMessage(Out(users, roles, ledger, g, TRUE, 400, "", "system_role", NoToken, NoAudit),
                     <<"System roles cannot be modified">>)
  ELSE IF Cardinality(Range(permissions) \cap Perms) # Len(permissions)
    THEN Out(users, roles, ledger, g, TRUE, 400, "", "invalid_permissions", NoToken, NoAudit)
  ELSE Answer(users,
              [roles EXCEPT ![roleId].permissions = permissions, ![roleId].level = level],
              ledger, g, 200, "ok", NoToken,
              createAuditLog(g.user.id, "role_update", "system", "success", "high", storeOk))

\* buggy variant: no user is ever counted
CountUsersWithRoleNone(r) == 0

\* User.countDocuments({ role })
CountUsersWithRole(r) == Cardinality({u \in UserIds : users[u] # NoDoc /\ users[u].role = r})

\* buggy variant: system roles are deleted like any other
deleteRoleHandlerAnyRole(g, roleId, storeOk) ==
  IF roles[roleId] = NoDoc
    THEN Out(users, roles, ledger, g, TRUE, 404, "", "not_found", NoToken, NoAudit)
  ELSE IF CountUsersWithRole(roleId) > 0
    THEN WithMessage(Out(users, roles, ledger, g, TRUE, 400, "", "role_in_use", NoToken, NoAudit),
                     <<"Cannot delete role.", CountUsersWithRole(roleId),
                       "users are assigned to this role">>)
  ELSE Answer(users, [roles EXCEPT ![roleId] = NoDoc], ledger, g, 200, "ok", NoToken,
         createAuditLog(g.user.id, "role_delete", "system", "success", "high", storeOk))

\* exports.deleteRole
deleteRoleHandler(g, roleId, storeOk) ==
  IF roles[roleId] = NoDoc
    THEN Out(users, roles, ledger, g, TRUE, 404, "", "not_found", NoToken, NoAudit)
  ELSE IF roles[roleId].isSystemRole
    THEN WithMessage(Out(users, roles, ledger, g, TRUE, 400, "", "system_role", NoToken, NoAudit),
                     <<"System roles cannot be deleted">>)
  ELSE IF CountUsersWithRole(roleId) > 0
    THEN WithMessage(Out(users, roles, ledger, g, TRUE, 400, "", "role_in_use", NoToken, NoAudit),
                     <<"Cannot delete role.", CountUsersWithRole(roleId),
                       "users are assigned to this role">>)
  ELSE Answer(users, [roles EXCEPT ![roleId] = NoDoc], ledger, g, 200, "ok", NoToken,
         createAuditLog(g.user.id, "role_delete", "system", "success", "high", storeOk))

\* DELETE /roles/:id: protect, requireSuperAdmin, then the handler
deleteRole(hdr, storeErr, roleId, storeOk) ==
  LET g == requireSuperAdmin(protect(hdr, storeErr, storeOk), storeOk) IN
  IF ~g.pass THEN GateOut(g) ELSE deleteRoleHandler(g, roleId, storeOk)

\* ------------------------------------------------------------ initial state

\* the roles of the seeder (all system roles) and one role made by an operator
SeedRoles ==
  [r \in RoleIds |->
     CASE r = "r_super" ->
            [id |-> r, name |-> "super_admin", permissions |-> PermNames,
             level |-> 100, isSystemRole |-> TRUE]
       [] r = "r_editor" ->
            [id |-> r, name |-> "editor",
             permissions |-> FilterPerms({"content:create", "content:read",
                                          "content:update", "user:read"}),
             level |-> 30, isSystemRole |-> TRUE]
       [] r = "r_user" ->
            [id |-> r, name |-> "user", permissions |-> FilterPerms({"content:read"}),
             level |-> 10, isSystemRole |-> TRUE]
       [] OTHER ->
            [id |-> r, name |-> "custom",
             permissions |-> FilterPerms({"user:read", "user:update"}),
             level |-> 50, isSystemRole |-> FALSE]]

\* the seeded super admin and one registered principal; u3 is not created yet
SeedUsers ==
  [u \in UserIds |->
     CASE u = "u1" -> NewUser("u1", "e1", "pwA", "r_super")
       [] u = "u2" -> NewUser("u2", "e2", "pwA", "r_user")
       [] OTHER -> NoDoc]

Init ==
  /\ now = 0
  /\ users = SeedUsers
  /\ roles = SeedRoles
  /\ ledger = {}
  /\ nextUser = {"u3"}
  /\ held = {}
  /\ issuedFor = {}
  /\ revoked = {}
  /\ fails = [u \in UserIds |-> 0]
  /\ inflight = [q \in ReqIds |-> Idle]
  /\ auditLog = {}

\* ------------------------------------------------------------------ actions
\* One action per route.  The plain gate request (GetProfile) is sent with every
\* kind of header and with every store failure; the other protected routes, which
\* put the same protect in front, are sent by clients with a token they hold.

\* the request is done: the collections are as the handler left them; the client
\* keeps a token it was given if it chooses to, early enough, and has room for it
Commit(o, keep, owner, perms) ==
  LET kept == o.token # NoToken /\ keep /\ now < MaxIssue /\ Cardinality(held) < MaxTokens IN
  /\ users' = o.users
  /\ roles' = o.roles
  /\ ledger' = o.ledger
  /\ inflight' = inflight
  /\ auditLog' = Persist(o.audits)
  /\ held' = IF kept THEN held \cup {o.token} ELSE held
  /\ issuedFor' = IF kept
                    THEN issuedFor \cup {[token |-> o.token, id |-> owner, perms |-> perms]}
                    ELSE issuedFor
  /\ revoked' = revoked \cup {e.token : e \in o.ledger \ ledger}

\* a request that issues no token
Done(o) == Commit(o, FALSE, NullId, <<>>) /\ UNCHANGED <<now, nextUser, fails>>

\* time passes
Tick ==
  /\ now < MaxTime
  /\ now' = now + 1
  /\ UNCHANGED <<users, roles, ledger, nextUser, held, issuedFor, revoked, fails, inflight, auditLog>>

\* buggy variant: the store prunes an entry one hour early
PrunableEarly(e) == e.expiresAt <= now + 1

\* the TTL index on expiresAt (expires: 0): an entry may go once its date has come
Prunable(e) == e.expiresAt <= now

Prune ==
  /\ \E e \in ledger : Prunable(e) /\ ledger' = ledger \ {e}
  /\ UNCHANGED <<now, users, roles, nextUser, held, issuedFor, revoked, fails, inflight, auditLog>>

\* a client forgets a token
Discard ==
  /\ \E t \in held :
       /\ held' = held \ {t}
       /\ issuedFor' = {i \in issuedFor : i.token # t}
       /\ revoked' = revoked \ {t}
  /\ UNCHANGED <<now, users, roles, ledger, nextUser, fails, inflight, auditLog>>

\* a retention period of the audit collection passes
Quarter ==
  /\ now <= MaxTime
  /\ now' = now + AuditRetention
  /\ UNCHANGED <<users, roles, ledger, nextUser, held, issuedFor, revoked, fails, inflight,
                  auditLog>>

\* the TTL index on createdAt: a record may go once its retention period is over
ExpireAudit ==
  /\ \E r \in auditLog :
       /\ r.createdAt + AuditRetention <= now
       /\ auditLog' = auditLog \ {r}
  /\ UNCHANGED <<now, users, roles, ledger, nextUser, held, issuedFor, revoked, fails,
                  inflight>>

\* the history counter stops here
FailsCap == MaxAttempts + 1

\* the owners of these emails never mistype their password
Careful == {"e1"}

\* POST /auth/login, where the owners of the emails in careful type the right password
LoginBy(careful) ==
  \E email \in Emails, password \in Passwords, storeOk \in BOOLEAN, keep \in BOOLEAN :
    LET o == login(email, password, storeOk)
        found == FindByEmail(email)
    IN /\ email \in careful /\ found # NoDoc => comparePassword(found, password)
       /\ Commit(o, keep,
                 IF found = NoDoc THEN NullId ELSE found.id,
                 IF found = NoDoc THEN <<>> ELSE allPermissions(Populate(found)))
       /\ fails' = IF o.branch = "invalid_password"
                     THEN [fails EXCEPT ![found.id] = IF @ < FailsCap THEN @ + 1 ELSE @]
                   ELSE IF o.branch = "ok" THEN [fails EXCEPT ![found.id] = 0]
                   ELSE fails
       /\ UNCHANGED <<now, nextUser>>

Login == LoginBy(Careful)

Register ==
  \E id \in nextUser, email \in Emails, password \in Passwords, role \in RoleArgs,
     storeOk \in BOOLEAN, keep \in BOOLEAN :
    LET o == register(id, email, password, role, storeOk) IN
    /\ Commit(o, keep, id, <<>>)
    /\ nextUser' = IF o.users[id] # NoDoc THEN nextUser \ {id} ELSE nextUser
    /\ UNCHANGED <<now, fails>>

Logout ==
  \E hdr \in BearerHeaders, storeErr \in {"none"}, storeOk \in BOOLEAN :
    Done(logout(hdr, storeErr, storeOk))

ForceLogoutAll ==
  \E hdr \in BearerHeaders, storeErr \in {"none"}, storeOk \in BOOLEAN :
    Done(forceLogoutAll(hdr, storeErr, storeOk))

ChangePassword ==
  \E hdr \in BearerHeaders, storeErr \in {"none"}, cur \in Passwords, new \in Passwords,
     storeOk \in BOOLEAN :
    Done(changePassword(hdr, storeErr, cur, new, storeOk))

GetProfile ==
  \E hdr \in Headers, storeErr \in StoreErrs, storeOk \in BOOLEAN :
    Done(getProfile(hdr, storeErr, storeOk))

GetAllUsers ==
  \E hdr \in BearerHeaders, storeErr \in {"none"}, storeOk \in BOOLEAN :
    Done(getAllUsers(hdr, storeErr, storeOk))

UpdateUser ==
  \E hdr \in BearerHeaders, storeErr \in {"none"}, id \in UserIds, status \in Statuses,
     storeOk \in BOOLEAN :
    Done(updateUser(hdr, storeErr, id, status, storeOk))

\* PUT /users/:id/role for the users in ids
AssignRoleOn(ids) ==
  \E hdr \in BearerHeaders, storeErr \in {"none"}, id \in ids, roleId \in RoleIds,
     storeOk \in BOOLEAN :
    Done(assignRole(hdr, storeErr, id, roleId, storeOk))

AssignRole == AssignRoleOn(UserIds)

\* PUT /users/:id/additional-roles for the users in ids
AddAdditionalRoleOn(ids) ==
  \E hdr \in BearerHeaders, storeErr \in {"none"}, id \in ids, roleId \in RoleIds,
     storeOk \in BOOLEAN :
    /\ users[id] # NoDoc => Len(users[id].additionalRoles) < MaxAdditional
    /\ Done(addAdditionalRole(hdr, storeErr, id, roleId, storeOk))

AddAdditionalRole == AddAdditionalRoleOn(UserIds)

\* DELETE /users/:id/additional-roles/:roleId for the users in ids
RemoveAdditionalRoleOn(ids) ==
  \E hdr \in BearerHeaders, storeErr \in {"none"}, id \in ids, roleId \in RoleIds,
     storeOk \in BOOLEAN :
    Done(removeAdditionalRole(hdr, storeErr, id, roleId, storeOk))

RemoveAdditionalRole == RemoveAdditionalRoleOn(UserIds)

\* DELETE /users/:id for the users in ids
DeleteUserOn(ids) ==
  \E hdr \in BearerHeaders, storeErr \in {"none"}, id \in ids, storeOk \in BOOLEAN :
    Done(deleteUser(hdr, storeErr, id, storeOk))

DeleteUser == DeleteUserOn(UserIds)

\* PUT /roles/:id/permissions for the roles in roleIds
AssignPermissionsOn(roleIds) ==
  \E hdr \in BearerHeaders, storeErr \in {"none"}, roleId \in roleIds,
     permissions \in PermLists, storeOk \in BOOLEAN :
    Done(assignPermissions(hdr, storeErr, roleId, permissions, storeOk))

AssignPermissions == AssignPermissionsOn(RoleIds)

DeleteRole ==
  \E hdr \in BearerHeaders, storeErr \in {"none"}, roleId \in RoleIds, storeOk \in BOOLEAN :
    Done(deleteRole(hdr, storeErr, roleId, storeOk))

\* PUT /roles/:id for the roles in roleIds
UpdateRoleOn(roleIds) ==
  \E hdr \in BearerHeaders, storeErr \in {"none"}, roleId \in roleIds,
     permissions \in PermLists, level \in Levels, storeOk \in BOOLEAN :
    Done(updateRole(hdr, storeErr, roleId, permissions, level, storeOk))

UpdateRole == UpdateRoleOn(RoleIds)

Next ==
  \/ Tick
  \/ Prune
  \/ Discard
  \/ Quarter
  \/ ExpireAudit
  \/ Login
  \/ Register
  \/ Logout
  \/ ForceLogoutAll
  \/ ChangePassword
  \/ GetProfile
  \/ GetAllUsers
  \/ UpdateUser
  \/ AssignRole
  \/ AddAdditionalRole
  \/ RemoveAdditionalRole
  \/ DeleteUser
  \/ AssignPermissions
  \/ DeleteRole
  \/ UpdateRole

Spec == Init /\ [][Next]_vars

\* The parts of Next whose state spaces are explored exhaustively.

\* the lockout guard: logins as time passes
NextLock == Tick \/ Login
SpecLock == Init /\ [][NextLock]_vars

\* revocation: tokens are issued, revoked, expire and are pruned
NextRevoke ==
  Tick \/ Prune \/ Login \/ Logout \/ ForceLogoutAll \/ ChangePassword \/ GetProfile
SpecRevoke == Init /\ [][NextRevoke]_vars

\* the gate: every branch of protect and requirePermission
NextGate ==
  Tick \/ Prune \/ Login \/ Logout \/ GetProfile \/ GetAllUsers \/ UpdateUser \/ DeleteUser
SpecGate == Init /\ [][NextGate]_vars

\* the role graph: nobody mistypes a password, an operator changes the roles of u2
\* and the permissions of the role user
NextRbac ==
  \/ Tick
  \/ LoginBy(Emails)
  \/ GetAllUsers
  \/ AssignRoleOn({"u2"})
  \/ AddAdditionalRoleOn({"u2"})
  \/ RemoveAdditionalRoleOn({"u2"})
  \/ AssignPermissionsOn({"r_user"})
SpecRbac == Init /\ [][NextRbac]_vars

\* the role API: operators change the roles of principals, edit and delete roles
NextRoles ==
  \/ LoginBy(Emails)
  \/ AssignRole
  \/ AddAdditionalRoleOn({"u2"})
  \/ UpdateRoleOn({"r_custom"})
  \/ DeleteRole
SpecRoles == Init /\ [][NextRoles]_vars

\* the role API on system roles and on the custom role
NextSystemRoles ==
  \/ LoginBy(Emails)
  \/ UpdateRoleOn({"r_editor", "r_custom"})
  \/ AssignPermissionsOn({"r_user"})
  \/ DeleteRole
SpecSystemRoles == Init /\ [][NextSystemRoles]_vars

\* sessions: a principal logs in again after its permissions have changed, so it
\* holds two different tokens, and logs out of one session or of all
NextSessions ==
  \/ LoginBy(Emails)
  \/ AssignPermissionsOn({"r_super"})
  \/ Logout
  \/ ForceLogoutAll
  \/ GetProfile
SpecSessions == Init /\ [][NextSessions]_vars

\* the audit trail of a principal that registers, logs in and is deleted by the
\* super admin, within the retention period and after it
NextTrail ==
  Quarter \/ ExpireAudit \/ LoginBy(Emails) \/ Register \/ DeleteUserOn(Traced)
SpecTrail == Init /\ [][NextTrail]_vars

\* ------------------------------------------------------- requests in flight
\* The process serves other requests while a request waits at an await: between
\* protect and the handler, between a read and the update computed from it.

\* what a suspended request leaves in the collections
Store(o) ==
  /\ users' = o.users
  /\ roles' = o.roles
  /\ ledger' = o.ledger
  /\ revoked' = revoked \cup {e.token : e \in o.ledger \ ledger}

\* the routes of the auth router that revoke the token of the request
RevokingOps == {"logout", "forceLogoutAll", "changePassword"}

\* router.use(protect) has called next(): the request waits for its handler
PassGate(q) ==
  \E hdr \in BearerHeaders, op \in RevokingOps :
    LET g == protect(hdr, "none", TRUE) IN
    /\ inflight[q] = Idle
    /\ g.pass
    /\ inflight' = [inflight EXCEPT ![q] = [pc |-> "handler", op |-> op, g |-> g]]
    /\ UNCHANGED <<now, users, roles, ledger, nextUser, held, issuedFor, revoked, fails,
                  auditLog>>

\* the handler of a request that passed protect earlier runs and answers
RunHandler(q) ==
  \E cur \in Passwords, new \in Passwords, storeOk \in BOOLEAN :
    LET r == inflight[q]
        o == CASE r.op = "logout" -> logoutHandler(r.g, storeOk)
               [] r.op = "forceLogoutAll" -> forceLogoutAllHandler(r.g, storeOk)
               [] OTHER -> changePasswordHandler(r.g, cur, new, storeOk)
    IN /\ r.pc = "handler"
       /\ Store(o)
       /\ auditLog' = Persist(o.audits)
       /\ inflight' = [inflight EXCEPT ![q] =
                         [pc |-> "answered", op |-> r.op, token |-> r.g.token,
                          status |-> o.status, branch |-> o.branch]]
       /\ UNCHANGED <<now, nextUser, held, issuedFor, fails>>

\* the response has gone out: the slot is free again
Forget(q) ==
  /\ inflight[q].pc = "answered"
  /\ inflight' = [inflight EXCEPT ![q] = Idle]
  /\ UNCHANGED <<now, users, roles, ledger, nextUser, held, issuedFor, revoked, fails,
                  auditLog>>

\* revocations that race: two requests with the same token, both past protect;
\* nobody mistypes a password at login
NextRevokeRace ==
  \/ LoginBy(Emails)
  \/ \E q \in ReqIds : PassGate(q)
  \/ \E q \in ReqIds : RunHandler(q)
  \/ \E q \in ReqIds : Forget(q)
SpecRevokeRace == Init /\ [][NextRevokeRace]_vars

\* POST /auth/login up to the failed comparePassword: the request has read the
\* principal, found it unlocked and active, and waits to count the failure
LoginRead(q) ==
  \E email \in Emails \ Careful, password \in Passwords :
    LET found == FindByEmail(email) IN
    /\ inflight[q] = Idle
    /\ found # NoDoc
    /\ ~isLocked(Populate(found))
    /\ found.status = "active"
    /\ ~comparePassword(found, password)
    /\ inflight' = [inflight EXCEPT ![q] =
                      [pc |-> "inc", op |-> "login", this |-> Populate(found)]]
    /\ UNCHANGED <<now, users, roles, ledger, nextUser, held, issuedFor, revoked, fails,
                  auditLog>>

\* await user.incLoginAttempts(): the update is computed from the document the
\* request read and applied by the store to the document as it is now
LoginWrite(q) ==
  LET this == inflight[q].this IN
  /\ inflight[q].pc = "inc"
  /\ users[this.id] # NoDoc
  /\ users' = SetUser(this.id, ApplyUpdate(users[this.id], incLoginAttempts(this)))
  /\ fails' = [fails EXCEPT ![this.id] = IF @ < FailsCap THEN @ + 1 ELSE @]
  /\ inflight' = [inflight EXCEPT ![q] = Idle]
  /\ \E storeOk \in BOOLEAN :
       auditLog' = Persist(createAuditLog(this.id, "failed_login", "auth", "failure",
                             IF this.loginAttempts >= HighSeverityFrom
                               THEN "high" ELSE "medium", storeOk).written)
  /\ UNCHANGED <<now, roles, ledger, nextUser, held, issuedFor, revoked>>

\* failed logins that race, as time passes, with no successful login in between
NextLoginRace ==
  \/ Tick
  \/ \E q \in ReqIds : LoginRead(q)
  \/ \E q \in ReqIds : LoginWrite(q)
SpecLoginRace == Init /\ [][NextLoginRace]_vars

\* failed logins in flight while the same principal also logs in successfully
NextLoginMix ==
  \/ LoginBy(Emails)
  \/ \E q \in ReqIds : LoginRead(q)
  \/ \E q \in ReqIds : LoginWrite(q)
SpecLoginMix == Init /\ [][NextLoginMix]_vars

\* a request has made its state changes and waits in await createAuditLog(...)
Suspend(q, op, o) ==
  /\ inflight[q] = Idle
  /\ o.awaited
  /\ Store(o)
  /\ inflight' = [inflight EXCEPT ![q] =
                    [pc |-> "audit", op |-> op, audits |-> Stamp(o.audits)]]
  /\ UNCHANGED <<now, held, issuedFor, auditLog>>

\* the audited operations, each up to its audit call: login, register, logout, a
\* denial of requirePermission, a role change; nobody mistypes a password here
AwaitAudit(q) ==
  \/ \E email \in Emails, password \in Passwords :
       LET o == login(email, password, TRUE) IN
       /\ FindByEmail(email) # NoDoc => comparePassword(FindByEmail(email), password)
       /\ Suspend(q, "login", o)
       /\ fails' = IF o.branch = "invalid_password"
                     THEN [fails EXCEPT ![FindByEmail(email).id] =
                             IF @ < FailsCap THEN @ + 1 ELSE @]
                   ELSE IF o.branch = "ok" THEN [fails EXCEPT ![FindByEmail(email).id] = 0]
                   ELSE fails
       /\ UNCHANGED nextUser
  \/ \E id \in nextUser, email \in Emails, password \in {"pwA"} :
       /\ Suspend(q, "register", register(id, email, password, Undefined, TRUE))
       /\ nextUser' = nextUser \ {id}
       /\ UNCHANGED fails
  \/ \E hdr \in BearerHeaders :
       /\ Suspend(q, "logout", logout(hdr, "none", TRUE))
       /\ UNCHANGED <<nextUser, fails>>
  \/ \E hdr \in BearerHeaders :
       /\ Suspend(q, "getAllUsers", getAllUsers(hdr, "none", TRUE))
       /\ UNCHANGED <<nextUser, fails>>
  \/ \E hdr \in BearerHeaders, roleId \in {"r_user", "r_editor"} :
       /\ Suspend(q, "assignRole", assignRole(hdr, "none", "u2", roleId, TRUE))
       /\ UNCHANGED <<nextUser, fails>>

\* AuditLog.create settles: the record is written, or the error is caught and logged
AuditSettles(q) ==
  /\ inflight[q].pc = "audit"
  /\ inflight' = [inflight EXCEPT ![q] = [pc |-> "reply", op |-> @.op]]
  /\ auditLog' = auditLog \cup inflight[q].audits
  /\ UNCHANGED <<now, users, roles, ledger, nextUser, held, issuedFor, revoked, fails>>

\* buggy variant: the audit write is handed off and not waited for
CanReplyEarly(r) == r.pc \in {"audit", "reply"}

\* the statement after await createAuditLog(...) is the one that sends the response
CanReply(r) == r.pc = "reply"

\* APIResponse.success / APIResponse.error / res.status(...).json(...)
Reply(q) ==
  /\ CanReply(inflight[q])
  /\ inflight' = [inflight EXCEPT ![q] = Idle]
  /\ UNCHANGED <<now, users, roles, ledger, nextUser, held, issuedFor, revoked, fails,
                  auditLog>>

\* audited requests; the process runs a handler that can go on, the audit store
\* may take any time over a write or never settle it
NextAudit ==
  \/ LoginBy(Emails)
  \/ \E q \in ReqIds : AwaitAudit(q)
  \/ \E q \in ReqIds : AuditSettles(q)
  \/ \E q \in ReqIds : Reply(q)
SpecAudit == Init /\ [][NextAudit]_vars

\* DELETE /roles/:id up to the in-use check: the request has found the role, which
\* is no system role and which no principal has as its role, and waits for
\* Role.findByIdAndDelete
DeleteRoleCount(q) ==
  \E hdr \in BearerHeaders, roleId \in RoleIds :
    LET o == deleteRole(hdr, "none", roleId, TRUE) IN
    /\ inflight[q] = Idle
    /\ o.branch = "ok"
    /\ inflight' = [inflight EXCEPT ![q] =
                      [pc |-> "delete", op |-> "deleteRole", roleId |-> roleId,
                       audits |-> o.audits]]
    /\ UNCHANGED <<now, users, roles, ledger, nextUser, held, issuedFor, revoked, fails,
                    auditLog>>

\* Role.findByIdAndDelete, the audit call and the answer
DeleteRoleWrite(q) ==
  LET r == inflight[q] IN
  /\ r.pc = "delete"
  /\ roles' = [roles EXCEPT ![r.roleId] = NoDoc]
  /\ auditLog' = Persist(r.audits)
  /\ inflight' = [inflight EXCEPT ![q] = Idle]
  /\ UNCHANGED <<now, users, ledger, nextUser, held, issuedFor, revoked, fails>>

\* a role is deleted while an operator assigns it; nobody mistypes a password
NextRoleRace ==
  \/ LoginBy(Emails)
  \/ AssignRoleOn({"u2"})
  \/ \E q \in ReqIds : DeleteRoleCount(q)
  \/ \E q \in ReqIds : DeleteRoleWrite(q)
SpecRoleRace == Init /\ [][NextRoleRace]_vars

\* the request has passed its gate and its findOne check, has built what it will
\* write, and waits for User.create / findByIdAndUpdate
Pend(q, op, id, email, o, create) ==
  /\ inflight[q] = Idle
  /\ o.branch = "ok"
  /\ inflight' = [inflight EXCEPT ![q] =
                    [pc |-> "write", op |-> op, id |-> id, email |-> Lower(email),
                     doc |-> IF create THEN o.users[id] ELSE NoDoc,
                     audits |-> o.audits]]
  /\ UNCHANGED <<now, users, roles, ledger, nextUser, held, issuedFor, revoked, fails,
                  auditLog>>

\* register, createUser, updateProfile and updateUser, each up to its write; the
\* store hands an ObjectId to one document only
EmailRead(q) ==
  \/ \E id \in nextUser, email \in EmailInputs :
       /\ \A p \in ReqIds : inflight[p].pc = "write" => inflight[p].id # id
       /\ Pend(q, "register", id, email, register(id, email, "pwA", Undefined, TRUE), TRUE)
  \/ \E hdr \in BearerHeaders, id \in nextUser, email \in EmailInputs :
       /\ \A p \in ReqIds : inflight[p].pc = "write" => inflight[p].id # id
       /\ Pend(q, "createUser", id, email,
               createUser(hdr, "none", id, email, "pwA", "r_user", TRUE), TRUE)
  \/ \E hdr \in BearerHeaders, email \in EmailInputs :
       LET o == updateProfile(hdr, "none", email, TRUE) IN
       Pend(q, "updateProfile", o.principal, email, o, FALSE)
  \/ \E hdr \in BearerHeaders, id \in UserIds \ {"u1"}, email \in EmailInputs :
       Pend(q, "updateUser", id, email, updateUserEmail(hdr, "none", id, email, TRUE), FALSE)

\* the write reaches the store: the unique index rejects a duplicate (E11000,
\* answered 400 by errorHandler), findByIdAndUpdate of a document that is gone
\* changes nothing; otherwise the document is created or updated and the audit
\* record is written
EmailWrite(q) ==
  LET r == inflight[q]
      branch == IF EmailTaken(r.id, r.email) THEN "duplicate_key"
                ELSE IF r.doc = NoDoc /\ users[r.id] = NoDoc THEN "error"
                ELSE "ok"
  IN /\ r.pc = "write"
     /\ users' = IF branch # "ok" THEN users
                 ELSE IF r.doc # NoDoc THEN SetUser(r.id, r.doc)
                 ELSE SetUser(r.id, [users[r.id] EXCEPT !.email = r.email])
     /\ nextUser' = IF branch = "ok" /\ r.doc # NoDoc THEN nextUser \ {r.id} ELSE nextUser
     /\ auditLog' = IF branch = "ok" THEN Persist(r.audits) ELSE auditLog
     /\ inflight' = [inflight EXCEPT ![q] =
                       [pc |-> "answered",
                        status |-> CASE branch = "duplicate_key" -> 400
                                     [] branch = "error" -> 500
                                     [] OTHER -> 200,
                        branch |-> branch]]
     /\ UNCHANGED <<now, roles, ledger, held, issuedFor, revoked, fails>>

\* requests that write an email, running at the same time; nobody mistypes a
\* password at login
NextEmails ==
  \/ LoginBy(Emails)
  \/ \E q \in ReqIds : EmailRead(q)
  \/ \E q \in ReqIds : EmailWrite(q)
  \/ \E q \in ReqIds : Forget(q)
SpecEmails == Init /\ [][NextEmails]_vars

\* ------------------------------------------------------------------- claims

\* Locked, as the specification defines it: a lock expiry that is still ahead
Locked(doc) == doc.lockUntil # Null /\ doc.lockUntil > now

\* the login reaches the password check and passes it
PassesPasswordCheck(doc, password) ==
  /\ doc # NoDoc
  /\ ~Locked(doc)
  /\ doc.status = "active"
  /\ doc.password = Hash(password)

\* a request that carries token t as its bearer token
Bearer(t) == [scheme |-> "Bearer", token |-> t]

\* the permissions a principal has under the collections as they are now
LivePermissions(u) ==
  UNION {Range(roles[r].permissions) :
           r \in {x \in {users[u].role} \cup Range(users[u].additionalRoles) :
                    roles[x] # NoDoc}}

\* the gate gets as far as loading the principal named by the token
ReachesPrincipal(hdr, storeErr) ==
  /\ hdr.scheme = "Bearer"
  /\ storeErr = "none"
  /\ \A e \in ledger : e.token # hdr.token
  /\ hdr.token.sig = Secret
  /\ now < hdr.token.payload.exp

\* the denials that protect and requirePermission put on record
AuditedDenial(hdr, storeErr, permission) ==
  /\ ReachesPrincipal(hdr, storeErr)
  /\ LET u == hdr.token.payload.id IN
       \/ users[u] = NoDoc
       \/ users[u].status # "active"
       \/ Locked(users[u])
       \/ permission \notin LivePermissions(u)

\* what the caller and the collections see of a request: all but the audit records
Visible(o) == [o EXCEPT !.audits = <<>>]

\* the request has the same visible outcome with the audit store up and down, and
\* writes nothing when it is down
AuditBlind(up, down) == Visible(up) = Visible(down) /\ down.audits = <<>>

\* the permission names of the seeded roles user and editor
UserRolePermissions == {"content:read"}
EditorRolePermissions == {"content:create", "content:read", "content:update", "user:read"}

\* C1: a token that a logout, changePassword or forceLogoutAll has put into the ledger
\* is rejected by the gate in every later state, whatever the store does, and no
\* handler behind the gate runs for it, also once its ledger entry has been pruned.
C1_RevokedTokenRejected ==
  \A t \in revoked, storeErr \in StoreErrs, storeOk \in BOOLEAN :
    /\ ~protect(Bearer(t), storeErr, storeOk).pass
    /\ ~getProfile(Bearer(t), storeErr, storeOk).handler
    /\ ~logout(Bearer(t), storeErr, storeOk).handler
    /\ ~forceLogoutAll(Bearer(t), storeErr, storeOk).handler
    /\ \A cur \in Passwords, new \in Passwords :
         ~changePassword(Bearer(t), storeErr, cur, new, storeOk).handler

\* C1 witness: a revoked token whose ledger entry has been pruned, still rejected
C1_Witness ==
  \E t \in revoked :
    /\ ~(\E e \in ledger : e.token = t)
    /\ t \in held
    /\ t.sig = Secret
    /\ ~protect(Bearer(t), "none", TRUE).pass

\* C2: the gate passes, with the principal and the raw token attached, only if the
\* request carries a bearer token with a valid signature that has not expired and is
\* not in the ledger, whose principal exists, is active and is not Locked, and no
\* store access failed; a handler behind the gate runs only if the gate passed.
C2_GateFailsClosed ==
  \A hdr \in Headers, storeErr \in StoreErrs, storeOk \in BOOLEAN :
    LET g == protect(hdr, storeErr, storeOk)
        t == hdr.token
    IN /\ g.pass =>
            /\ hdr.scheme = "Bearer"
            /\ t # NoToken
            /\ t.sig = Secret
            /\ now < t.payload.exp
            /\ \A e \in ledger : e.token # t
            /\ users[t.payload.id] # NoDoc
            /\ users[t.payload.id].status = "active"
            /\ ~Locked(users[t.payload.id])
            /\ storeErr = "none"
            /\ g.user.id = t.payload.id
            /\ g.token = t
       /\ getProfile(hdr, storeErr, storeOk).handler => g.pass
       /\ getAllUsers(hdr, storeErr, storeOk).handler => g.pass
       /\ logout(hdr, storeErr, storeOk).handler => g.pass

\* C2 witness: one held token passes the gate with its principal attached while
\* another, whose principal is gone, is refused
C2_Witness ==
  \E t1 \in held, t2 \in held :
    /\ protect(Bearer(t1), "none", TRUE).pass
    /\ protect(Bearer(t1), "none", TRUE).user.id = t1.payload.id
    /\ getProfile(Bearer(t1), "none", TRUE).handler
    /\ users[t2.payload.id] = NoDoc
    /\ ~protect(Bearer(t2), "none", TRUE).pass

\* C3: counted from an Unlocked principal with counter 0, one to four consecutive
\* failed password checks leave the principal not Locked; the fifth makes it Locked
\* with lockUntil at least LockTime (2 hours) after that failure, and the lock expiry
\* stays recorded while the count stands at five.
C3_LockedAfterFiveFailures ==
  \A u \in UserIds : users[u] # NoDoc =>
    /\ fails[u] \in 1..(MaxAttempts - 1) => ~Locked(users[u])
    /\ fails[u] = MaxAttempts => users[u].lockUntil # Null
    /\ \A password \in Passwords :
         LET o == login(users[u].email, password, TRUE) IN
         (fails[u] = MaxAttempts - 1 /\ o.branch = "invalid_password") =>
           /\ o.users[u].lockUntil # Null
           /\ o.users[u].lockUntil >= now + LockTime
           /\ o.users[u].lockUntil > now

\* C3 witness: a principal that has just failed five password checks in a row and is Locked
C3_Witness ==
  \E u \in UserIds :
    /\ users[u] # NoDoc
    /\ fails[u] = MaxAttempts
    /\ Locked(users[u])
    /\ users[u].lockUntil >= now + LockTime

\* C4: while a principal is Locked every login for it is answered 423, issues no token
\* and changes nothing, and the answer does not depend on the password supplied (the
\* password is not looked at).
C4_LockedLoginRejected ==
  \A email \in Emails, password \in Passwords, storeOk \in BOOLEAN :
    LET found == FindByEmail(email)
        o == login(email, password, storeOk)
    IN (found # NoDoc /\ Locked(found)) =>
         /\ o.status = 423
         /\ o.token = NoToken
         /\ o.users = users
         /\ \A other \in Passwords : login(email, other, storeOk) = o

\* C4 witness: a Locked principal whose login with the correct password is answered 423
C4_Witness ==
  \E u \in UserIds, password \in Passwords :
    /\ users[u] # NoDoc
    /\ Locked(users[u])
    /\ users[u].password = Hash(password)
    /\ login(users[u].email, password, TRUE).status = 423

\* C5: every login that passes the password check leaves the principal with counter
\* zero, no lock expiry and the last-login time set to the time of the login, whatever
\* the counter and the lock expiry were before.
C5_SuccessfulLoginResets ==
  \A email \in Emails, password \in Passwords, storeOk \in BOOLEAN :
    LET found == FindByEmail(email)
        o == login(email, password, storeOk)
    IN PassesPasswordCheck(found, password) =>
         /\ o.users[found.id].loginAttempts = 0
         /\ o.users[found.id].lockUntil = Null
         /\ o.users[found.id].lastLogin = now
         /\ ~Locked(o.users[found.id])

\* C5 witness: a principal with a counter of five or more and a lapsed lock expiry still
\* recorded, whose login with the right password succeeds and resets both
C5_Witness ==
  \E u \in UserIds, password \in Passwords :
    /\ users[u] # NoDoc
    /\ users[u].loginAttempts >= MaxAttempts
    /\ users[u].lockUntil # Null
    /\ PassesPasswordCheck(users[u], password)
    /\ login(users[u].email, password, TRUE).status = 200
    /\ login(users[u].email, password, TRUE).users[u].loginAttempts = 0

\* C6 as stated: a request with a token that passes protect is authorized by
\* requirePermission for exactly the permissions its principal had when the token was
\* issued, whatever has been done to the principal's roles since.
C6_TokenSnapshotAuthorizes ==
  \A i \in issuedFor, permission \in Perms :
    LET g == protect(Bearer(i.token), "none", TRUE) IN
    g.pass => (requirePermission(g, permission, TRUE).pass <=> permission \in Range(i.perms))

\* C6 amended: a request with a token that passes protect is authorized by
\* requirePermission for exactly the permissions its principal has at the time of the
\* request, under the roles and role permissions as they are then; the permissions
\* recorded in the token play no part.
C6_LivePermissionsAuthorize ==
  \A i \in issuedFor, permission \in Perms :
    LET g == protect(Bearer(i.token), "none", TRUE) IN
    g.pass => (requirePermission(g, permission, TRUE).pass
                 <=> permission \in LivePermissions(i.id))

\* C6 witness: a token issued before its principal's roles were changed passes protect;
\* a permission it was issued with is refused and one granted since is authorized
C6_Witness ==
  \E i \in issuedFor :
    LET g == protect(Bearer(i.token), "none", TRUE) IN
    /\ g.pass
    /\ Range(i.token.payload.permissions) = Range(i.perms)
    /\ \E old \in Range(i.perms) \ LivePermissions(i.id) :
         ~requirePermission(g, old, TRUE).pass
    /\ \E new \in LivePermissions(i.id) \ Range(i.perms) :
         requirePermission(g, new, TRUE).pass

\* C7: allPermissions of a principal holds exactly the permission names of its primary
\* role and of its additional roles, none of them twice; with primary role user
\* {content:read} and additional role editor {content:create, content:read,
\* content:update, user:read} it holds exactly those four names.
C7_AllPermissionsIsUnion ==
  \A u \in UserIds : users[u] # NoDoc =>
    LET ps == allPermissions(FindById(u)) IN
    /\ Range(ps) = LivePermissions(u)
    /\ \A i \in 1..Len(ps), j \in 1..Len(ps) : i # j => ps[i] # ps[j]
    /\ ( /\ users[u].role = "r_user"
         /\ users[u].additionalRoles = <<"r_editor">>
         /\ Range(roles["r_user"].permissions) = UserRolePermissions
         /\ Range(roles["r_editor"].permissions) = EditorRolePermissions )
       => (Range(ps) = EditorRolePermissions /\ Len(ps) = 4)

\* C7 witness: a principal with primary role user and additional role editor, whose
\* allPermissions has four names
C7_Witness ==
  \E u \in UserIds :
    /\ users[u] # NoDoc
    /\ users[u].role = "r_user"
    /\ users[u].additionalRoles = <<"r_editor">>
    /\ Range(roles["r_user"].permissions) = UserRolePermissions
    /\ Range(roles["r_editor"].permissions) = EditorRolePermissions
    /\ Len(allPermissions(FindById(u))) = 4

\* C8: each audited operation (login, register, logout, changePassword, assignRole,
\* deleteRole, the denials of protect, requirePermission and requireSuperAdmin) answers
\* with the same status and result and leaves the same users, roles and ledger whether
\* the audit write succeeds or fails.
C8_AuditFailureInvisible ==
  /\ \A email \in Emails, password \in Passwords :
       AuditBlind(login(email, password, TRUE), login(email, password, FALSE))
  /\ \A id \in nextUser, email \in Emails, role \in RoleArgs :
       AuditBlind(register(id, email, "pwA", role, TRUE),
                  register(id, email, "pwA", role, FALSE))
  /\ \A hdr \in Headers, storeErr \in StoreErrs :
       /\ AuditBlind(getProfile(hdr, storeErr, TRUE), getProfile(hdr, storeErr, FALSE))
       /\ AuditBlind(getAllUsers(hdr, storeErr, TRUE), getAllUsers(hdr, storeErr, FALSE))
       /\ AuditBlind(logout(hdr, storeErr, TRUE), logout(hdr, storeErr, FALSE))
       /\ \A cur \in Passwords :
            AuditBlind(changePassword(hdr, storeErr, cur, "pwB", TRUE),
                       changePassword(hdr, storeErr, cur, "pwB", FALSE))
       /\ \A id \in UserIds, roleId \in RoleIds :
            AuditBlind(assignRole(hdr, storeErr, id, roleId, TRUE),
                       assignRole(hdr, storeErr, id, roleId, FALSE))
       /\ \A roleId \in RoleIds :
            AuditBlind(deleteRole(hdr, storeErr, roleId, TRUE),
                       deleteRole(hdr, storeErr, roleId, FALSE))

\* C8 witness: a logout that succeeds and a request denied for a missing permission,
\* each writing a record with the audit store up, none with it down, and answering alike
C8_Witness ==
  \E t1 \in held, t2 \in held :
    /\ logout(Bearer(t1), "none", TRUE).status = 200
    /\ logout(Bearer(t1), "none", TRUE).audits # <<>>
    /\ logout(Bearer(t1), "none", FALSE).status = 200
    /\ logout(Bearer(t1), "none", FALSE).audits = <<>>
    /\ logout(Bearer(t1), "none", FALSE).ledger # ledger
    /\ getAllUsers(Bearer(t2), "none", TRUE).status = 403
    /\ getAllUsers(Bearer(t2), "none", TRUE).audits # <<>>
    /\ getAllUsers(Bearer(t2), "none", FALSE).status = 403

Revoking(r) ==
  r.pc = "answered" /\ r.op \in RevokingOps /\ r.branch \in {"ok", "duplicate_key"}

\* C11: revoking a token is idempotent: of two requests that carry the same token,
\* both pass the gate and both revoke it, neither fails because the entry already
\* exists, and the ledger holds exactly one entry for the token.
C11_RevokeIdempotent ==
  \A q \in ReqIds :
    Revoking(inflight[q]) =>
      /\ inflight[q].branch = "ok"
      /\ inflight[q].status = 200
      /\ Cardinality({e \in ledger : e.token = inflight[q].token}) = 1

\* C11: two requests with the same token have both revoked it and been answered
C11_BothAnswered ==
  /\ Revoking(inflight["q1"]) /\ Revoking(inflight["q2"])
  /\ inflight["q1"].token = inflight["q2"].token

\* a failed login on u that has read the principal and not yet counted the failure
CountingFailure(u) ==
  \E q \in ReqIds : inflight[q].pc = "inc" /\ inflight[q].this.id = u

\* C12: when every failed login on a principal has completed and the stored
\* failure counter is 5 or more, the principal's lockUntil is set: the counter
\* never rests at or above the threshold with no lock.
C12_ThresholdMeansLocked ==
  \A u \in UserIds :
    users[u] # NoDoc /\ ~CountingFailure(u) /\ users[u].loginAttempts >= MaxAttempts
      => users[u].lockUntil # Null

\* C13: no failed attempt is lost: a failed password check that read the principal
\* outside a lock window and is applied while the stored principal is Unlocked
\* (lockUntil is null, so this is not the restart at 1 after a lapsed lock) grows
\* the stored counter by one; k of them grow it by k.
C13_NoFailedAttemptLost ==
  [][\A q \in ReqIds :
       LET id == inflight[q].this.id IN
       inflight[q].pc = "inc" /\ inflight'[q] = Idle
         /\ users[id].lockUntil = Null
       => users'[id].loginAttempts = users[id].loginAttempts + 1]_vars

\* the token does not verify: bad signature, or past its expiry
FailsVerification(token) == JwtVerify(token, Secret).error # "none"

\* the answers protect gives to a token that does not verify
VerificationDenials == {"TOKEN_EXPIRED", "TOKEN_INVALID"}

\* C14: the gate verifies the token before it consults the revocation ledger: a
\* token that fails verification is rejected as such before any ledger lookup,
\* whatever the ledger holds and whether or not it can be read.
C14_VerifyBeforeLedger ==
  \A hdr \in Headers, storeErr \in StoreErrs :
    ExtractToken(hdr) # NoToken /\ FailsVerification(hdr.token)
      => protect(hdr, storeErr, TRUE).code \in VerificationDenials

\* C14 (amended): the gate consults the ledger first: the order is revocation
\* check, token verify, principal load, status check, lock check.  A token with a
\* ledger entry is answered TOKEN_BLACKLISTED and a failing lookup ends the request
\* even when the token does not verify; a token that does not verify is rejected
\* before the principal is loaded; an inactive principal is rejected as inactive
\* even when it is locked.
C14_LedgerBeforeVerify ==
  \A hdr \in Headers, storeErr \in StoreErrs :
    LET token == ExtractToken(hdr)
        g == protect(hdr, storeErr, TRUE)
    IN token # NoToken =>
         /\ storeErr = "ledger" => g.branch = "error"
         /\ storeErr # "ledger" /\ (\E e \in ledger : e.token = token)
              => g.code = "TOKEN_BLACKLISTED"
         /\ storeErr # "ledger" /\ (\A e \in ledger : e.token # token)
              /\ FailsVerification(token)
              => g.code \in VerificationDenials
         /\ storeErr = "user" /\ (\A e \in ledger : e.token # token)
              /\ ~FailsVerification(token)
              => g.branch = "error"
         /\ ReachesPrincipal(hdr, storeErr) /\ users[token.payload.id] # NoDoc
              => LET doc == users[token.payload.id] IN
                 /\ doc.status # "active" => g.branch = "account_inactive"
                 /\ doc.status = "active" /\ Locked(doc) => g.code = "ACCOUNT_LOCKED"
                 /\ doc.status = "active" /\ ~Locked(doc) => g.pass

\* C14: a client holds a token that is past its expiry and still in the ledger,
\* and the gate answers it TOKEN_BLACKLISTED
C14_Witness ==
  \E t \in held :
    /\ \E e \in ledger : e.token = t
    /\ FailsVerification(t)
    /\ protect(Bearer(t), "none", TRUE).code = "TOKEN_BLACKLISTED"

\* C15: the audit write never blocks the operation: its result is not waited
\* for, so while the audit write of a request is outstanding, however long, the
\* response of that request can go out.
C15_AuditWriteNotAwaited ==
  \A q \in ReqIds : inflight[q].pc = "audit" => CanReply(inflight[q])

\* C15 (amended): the response of an audited request is sent only after its audit
\* write has settled.
C15_ResponseAfterAuditSettles ==
  [][\A q \in ReqIds :
       inflight[q] # Idle /\ inflight'[q] = Idle => inflight[q].pc = "reply"]_vars

\* C15: one request still waits for its audit write while the audit write of
\* another has settled and its response can go out
C15_Witness ==
  \E q, p \in ReqIds : inflight[q].pc = "audit" /\ inflight[p].pc = "reply"

\* the principals whose primary role is r
AssignedTo(r) == {u \in UserIds : users[u] # NoDoc /\ users[u].role = r}

\* the callers that hold a token protect lets through
Callers == {hdr \in BearerHeaders : protect(hdr, "none", TRUE).pass}

\* the level of the caller's primary role
CallerLevel(hdr) == protect(hdr, "none", TRUE).user.role.level

C17_RoleInUseNotDeleted ==
  \A hdr \in Callers, r \in RoleIds, storeOk \in BOOLEAN :
    roles[r] # NoDoc /\ ~roles[r].isSystemRole /\ AssignedTo(r) # {} =>
      LET h == deleteRoleHandler(protect(hdr, "none", storeOk), r, storeOk)
          o == deleteRole(hdr, "none", r, storeOk)
      IN /\ h.status = 400
         /\ h.message = <<"Cannot delete role.", Cardinality(AssignedTo(r)),
                          "users are assigned to this role">>
         /\ h.roles = roles /\ h.users = users
         /\ o.roles = roles /\ o.users = users
         /\ o.status # 200
         /\ CallerLevel(hdr) >= SuperAdminLevel => o = h

\* C17: a super admin's request to delete the custom role, which is the role of
\* two principals, is answered 400
C17_Witness ==
  \E hdr \in Callers :
    /\ Cardinality(AssignedTo("r_custom")) = 2
    /\ deleteRole(hdr, "none", "r_custom", TRUE).branch = "role_in_use"

\* C18: a role with isSystemRole = true is immutable: no operation of the role
\* API (updateRole, assignPermissions, deleteRole) changes its permission set or
\* its level or removes it; a system role stays as it was seeded.
C18_SystemRoleImmutable ==
  \A r \in RoleIds : SeedRoles[r].isSystemRole => roles[r] = SeedRoles[r]

\* C19: deleteRole removes a role only when no principal references it, as
\* primary role or as an additional role: no principal's primary or additional
\* role reference points to a role that has been deleted.
C19_NoReferenceToDeletedRole ==
  \A u \in UserIds :
    users[u] # NoDoc =>
      \A r \in {users[u].role} \cup Range(users[u].additionalRoles) : roles[r] # NoDoc

\* C20: after a successful forceLogoutAll by a principal, every token issued to
\* that principal before the request, and not only the token that carried it, is
\* rejected by the gate.
C20_AllSessionsLoggedOut ==
  [][\A e \in ledger' \ ledger :
       e.reason = "force_logout" =>
         \A i \in issuedFor :
           i.id = e.userId => ~(protect(Bearer(i.token), "none", TRUE).pass)']_vars

\* the token carries a signature made with the secret
ValidlySigned(token) == "sig" \in DOMAIN token /\ token.sig = Secret

\* the token is validly signed and past its expiry
PastExpiry(token) == ValidlySigned(token) /\ now >= token.payload.exp

\* C21: the gate reports distinct failure kinds: a validly signed token past its
\* expiry is rejected with 401 TOKEN_EXPIRED, a token with a bad signature with
\* 401 TOKEN_INVALID, a revoked token with 401 TOKEN_BLACKLISTED, and a request
\* by a Locked principal with 423 ACCOUNT_LOCKED.
C21_DistinctFailureKinds ==
  \A hdr \in Headers, storeOk \in BOOLEAN :
    LET token == ExtractToken(hdr)
        g == protect(hdr, "none", storeOk)
    IN token # NoToken =>
         /\ PastExpiry(token) => g.status = 401 /\ g.code = "TOKEN_EXPIRED"
         /\ ~ValidlySigned(token) => g.status = 401 /\ g.code = "TOKEN_INVALID"
         /\ token \in revoked => g.status = 401 /\ g.code = "TOKEN_BLACKLISTED"
         /\ ValidlySigned(token) /\ users[token.payload.id] # NoDoc
              /\ Locked(users[token.payload.id])
              => g.status = 423 /\ g.code = "ACCOUNT_LOCKED"

\* C21 (amended): the gate reports the first failure in the order ledger, verify,
\* status, lock.  With the stores readable: a token with a ledger entry is
\* rejected with 401 TOKEN_BLACKLISTED, expired or not; a token without a ledger
\* entry (never revoked, or revoked and its entry pruned) is rejected with 401
\* TOKEN_EXPIRED when it is validly signed and past its expiry and with 401
\* TOKEN_INVALID when its signature is bad; a request with a token that verifies
\* and has no ledger entry by a Locked principal is rejected with 423
\* ACCOUNT_LOCKED when the principal is active, and with 401 without a code when
\* it is not.
C21_FirstFailureKindReported ==
  \A hdr \in Headers, storeOk \in BOOLEAN :
    LET token == ExtractToken(hdr)
        g == protect(hdr, "none", storeOk)
        listed == \E e \in ledger : e.token = token
    IN token # NoToken =>
         /\ listed => g.status = 401 /\ g.code = "TOKEN_BLACKLISTED"
         /\ ~listed /\ PastExpiry(token) => g.status = 401 /\ g.code = "TOKEN_EXPIRED"
         /\ ~listed /\ ~ValidlySigned(token) => g.status = 401 /\ g.code = "TOKEN_INVALID"
         /\ ~listed /\ ~FailsVerification(token) /\ users[token.payload.id] # NoDoc
              /\ Locked(users[token.payload.id])
              => IF users[token.payload.id].status = "active"
                   THEN g.status = 423 /\ g.code = "ACCOUNT_LOCKED"
                   ELSE g.status = 401 /\ g.code = ""

\* C21: the clients hold a revoked token whose entry is still in the ledger and a
\* token past its expiry without an entry; the gate answers the first
\* TOKEN_BLACKLISTED, the second TOKEN_EXPIRED and its forgery TOKEN_INVALID
C21_Witness ==
  \E t, x \in held :
    /\ \E e \in ledger : e.token = t
    /\ \A e \in ledger : e.token # x
    /\ PastExpiry(x)
    /\ protect(Bearer(t), "none", TRUE).code = "TOKEN_BLACKLISTED"
    /\ protect(Bearer(x), "none", TRUE).code = "TOKEN_EXPIRED"
    /\ protect(Bearer(Forge(x)), "none", TRUE).code = "TOKEN_INVALID"

\* the codes a structured denial may carry
DenialCodes ==
  {"TOKEN_BLACKLISTED", "TOKEN_EXPIRED", "TOKEN_INVALID", "ACCOUNT_LOCKED",
   "INSUFFICIENT_PERMISSIONS", "INSUFFICIENT_ROLE", "REQUIRES_SUPER_ADMIN"}

\* the lists of permission names and of role names the routes put in a predicate
RequiredLists ==
  {<<>>, <<"system:manage">>, <<"content:read">>, <<"content:read", "user:update">>,
   <<"system:manage", "user:manage">>}
RoleNameLists == {<<>>, <<"super_admin">>, <<"editor", "user">>}

\* the verdicts of the gate and of each predicate put behind it, for one request
Verdicts(hdr, storeErr, storeOk) ==
  LET g == protect(hdr, storeErr, storeOk) IN
  {g, requireSuperAdmin(g, storeOk)}
    \cup {requirePermission(g, p, storeOk) : p \in Perms}
    \cup {requireAnyPermission(g, L, storeOk) : L \in RequiredLists}
    \cup {requireAllPermissions(g, L, storeOk) : L \in RequiredLists}
    \cup {restrictTo(g, L, storeOk) : L \in RoleNameLists}

\* the verdict is a denial that was sent to the caller
IsDenial(g) == ~g.pass /\ g.status # 0

\* C22: every denial produced by the gate or by a permission, role or level
\* predicate carries a machine-readable code from the closed set; no denial is
\* returned without such a code.
C22_EveryDenialCoded ==
  \A hdr \in Headers, storeErr \in StoreErrs, storeOk \in BOOLEAN :
    \A g \in Verdicts(hdr, storeErr, storeOk) :
      IsDenial(g) => g.code \in DenialCodes

\* C22 (amended): every denial carries a code from the closed set, except four
\* denials of the gate, which are answered 401 without a code: no bearer token
\* in the request, the principal of the token no longer exists, the principal is
\* not active, and an error that is not a token error (a store that cannot be
\* read).  Every denial of a permission, role or level predicate carries its code.
C22_DenialCodedExceptFour ==
  \A hdr \in Headers, storeErr \in StoreErrs, storeOk \in BOOLEAN :
    \A g \in Verdicts(hdr, storeErr, storeOk) :
      IsDenial(g) =>
        /\ g.code \in DenialCodes \cup {""}
        /\ g.code = "" <=>
             /\ g.status = 401
             /\ \/ ExtractToken(hdr) = NoToken
                \/ storeErr = "ledger"
                \/ /\ ~IsBlacklisted(hdr.token) /\ ~FailsVerification(hdr.token)
                   /\ \/ storeErr = "user"
                      \/ users[hdr.token.payload.id] = NoDoc
                      \/ users[hdr.token.payload.id].status # "active"
        /\ protect(hdr, storeErr, storeOk).pass => g.status = 403 /\ g.code # ""

\* C22: the principal of one held token is not active and the gate answers 401
\* without a code, while the request with another held token is denied by a role
\* predicate with INSUFFICIENT_ROLE
C22_Witness ==
  \E t, x \in held :
    /\ users[t.payload.id] # NoDoc /\ users[t.payload.id].status # "active"
    /\ IsDenial(protect(Bearer(t), "none", TRUE))
    /\ protect(Bearer(t), "none", TRUE).code = ""
    /\ restrictTo(protect(Bearer(x), "none", TRUE), <<"super_admin">>, TRUE).code
         = "INSUFFICIENT_ROLE"

\* a denial by a permission predicate that names what it required
DeniedNaming(g, required) ==
  /\ ~g.pass /\ g.status = 403 /\ g.code = "INSUFFICIENT_PERMISSIONS"
  /\ g.required = required

\* C23: hasPermission(p) is true exactly when p is in the effective permissions
\* of the principal, hasAnyPermission(L) exactly when some element of L is in
\* them (false for the empty list), hasAllPermissions(L) exactly when every
\* element of L is in them (true for the empty list); requirePermission,
\* requireAnyPermission and requireAllPermissions invoke the handler exactly when
\* the corresponding test is true, and otherwise answer 403
\* INSUFFICIENT_PERMISSIONS naming the required permission(s).
C23_PermissionPredicates ==
  /\ \A u \in UserIds : users[u] # NoDoc =>
       LET pu == Populate(users[u])
           effective == LivePermissions(u)
       IN /\ \A p \in Perms \cup {"user:manage"} :
               hasPermission(pu, p) <=> p \in effective
          /\ \A L \in RequiredLists :
               /\ hasAnyPermission(pu, L) <=> Range(L) \cap effective # {}
               /\ hasAllPermissions(pu, L) <=> Range(L) \subseteq effective
          /\ ~hasAnyPermission(pu, <<>>) /\ hasAllPermissions(pu, <<>>)
  /\ \A hdr \in BearerHeaders, storeOk \in BOOLEAN :
       LET g == protect(hdr, "none", storeOk) IN
       g.pass =>
         LET effective == LivePermissions(g.user.id) IN
         /\ \A p \in Perms :
              LET v == requirePermission(g, p, storeOk) IN
              IF p \in effective THEN v.pass ELSE DeniedNaming(v, [name |-> p])
         /\ \A L \in RequiredLists :
              /\ LET v == requireAnyPermission(g, L, storeOk) IN
                 IF Range(L) \cap effective # {}
                   THEN v.pass ELSE DeniedNaming(v, [names |-> L])
              /\ LET v == requireAllPermissions(g, L, storeOk) IN
                 IF Range(L) \subseteq effective
                   THEN v.pass ELSE DeniedNaming(v, [names |-> L])

\* C23: the principal of a held token has one of two listed permissions only:
\* requireAnyPermission lets the request through and requireAllPermissions
\* answers 403 naming both
C23_Witness ==
  \E t \in held :
    LET g == protect(Bearer(t), "none", TRUE)
        L == <<"content:read", "user:update">>
    IN /\ g.pass
       /\ "content:read" \in LivePermissions(g.user.id)
       /\ "user:update" \notin LivePermissions(g.user.id)
       /\ requireAnyPermission(g, L, TRUE).pass
       /\ DeniedNaming(requireAllPermissions(g, L, TRUE), [names |-> L])
       /\ DeniedNaming(requirePermission(g, "user:update", TRUE), [name |-> "user:update"])

\* C24: pre-authentication events are audited with a null principal: a login
\* attempt for an email that matches no principal is answered 401 and, the audit
\* store being available, results in exactly one persisted audit record with
\* principal null, action failed_login and outcome failure.
C24_UnknownEmailAudited ==
  \A email \in Emails, password \in Passwords :
    FindByEmail(email) = NoDoc =>
      LET o == login(email, password, TRUE) IN
      /\ o.status = 401
      /\ Len(o.audits) = 1
      /\ o.audits[1].userId = NullId
      /\ o.audits[1].action = "failed_login"
      /\ o.audits[1].status = "failure"

\* the handler handed one call to the audit sink
Audited(o) == o.handler /\ o.awaited

\* C25: every action tag and resource category that an operation hands to the
\* audit sink belongs to the enumerations the audit store accepts, so each
\* audited call (role update, role delete, permission assignment, primary role
\* assignment, additional-role add) produces exactly one persisted audit record
\* when the store is available.
C25_AuditedCallsPersist ==
  \A hdr \in BearerHeaders :
    /\ \A id \in UserIds, roleId \in RoleIds :
         /\ LET o == assignRole(hdr, "none", id, roleId, TRUE) IN
            Audited(o) => Len(o.audits) = 1
         /\ LET o == addAdditionalRole(hdr, "none", id, roleId, TRUE) IN
            Audited(o) => Len(o.audits) = 1
    /\ \A roleId \in RoleIds :
         /\ LET o == deleteRole(hdr, "none", roleId, TRUE) IN
            Audited(o) => Len(o.audits) = 1
         /\ \A permissions \in PermLists :
              /\ LET o == assignPermissions(hdr, "none", roleId, permissions, TRUE) IN
                 Audited(o) => Len(o.audits) = 1
              /\ \A level \in Levels :
                   LET o == updateRole(hdr, "none", roleId, permissions, level, TRUE) IN
                   Audited(o) => Len(o.audits) = 1

\* the audit records that refer to the principal u
RecordsOf(u) == {r \in auditLog : r.userId = u}

\* C26: audit records are append-only: no operation modifies or removes an
\* existing audit record before its 90-day retention horizon, and deleteUser(P)
\* leaves every audit record that refers to P in place and unchanged.
C26_AuditAppendOnly ==
  [][/\ \A r \in auditLog : r \in auditLog' \/ r.createdAt + AuditRetention <= now
     /\ \A u \in Traced :
          users[u] # NoDoc /\ users'[u] = NoDoc => RecordsOf(u) \subseteq auditLog']_vars

\* C26: the principal has been deleted within the retention period and the
\* records of its registration and of a login are still in the audit collection
C26_Witness ==
  \E u \in Traced :
    /\ u \notin nextUser /\ users[u] = NoDoc
    /\ now < AuditRetention
    /\ \E r, l \in RecordsOf(u) : r.action = "register" /\ l.action = "login"

\* an email with its capitals folded
Folded(email) == IF email \in MixedCase THEN "e3" ELSE email

\* a principal other than id holds this email, compared case-insensitively
HeldByOther(id, email) ==
  \E u \in UserIds \ {id} : users[u] # NoDoc /\ Folded(users[u].email) = Folded(email)

\* the request was rejected with 400 and changed no principal
Rejected400(o) == o.status = 400 /\ o.users = users

\* C27: after any sequence and any interleaving of register, createUser,
\* updateProfile and updateUser no two principals have the same email compared
\* case-insensitively; an attempt that would create a duplicate is rejected with
\* a 400 error and adds or changes no principal.
C27_EmailsUnique ==
  /\ [](/\ \A u, v \in UserIds :
             u # v /\ users[u] # NoDoc /\ users[v] # NoDoc
               => Folded(users[u].email) # Folded(users[v].email)
        /\ \A email \in EmailInputs :
             /\ \A id \in nextUser :
                  HeldByOther(id, email) =>
                    /\ Rejected400(register(id, email, "pwA", Undefined, TRUE))
                    /\ \A hdr \in BearerHeaders :
                         LET o == createUser(hdr, "none", id, email, "pwA", "r_user", TRUE)
                         IN o.handler => Rejected400(o)
             /\ \A hdr \in BearerHeaders :
                  /\ LET o == updateProfile(hdr, "none", email, TRUE) IN
                     o.handler /\ HeldByOther(o.principal, email) => Rejected400(o)
                  /\ \A id \in UserIds :
                       LET o == updateUserEmail(hdr, "none", id, email, TRUE) IN
                       o.handler /\ users[id] # NoDoc /\ HeldByOther(id, email)
                         => Rejected400(o))
  /\ [][\A q \in ReqIds :
          /\ inflight[q].pc = "write" /\ inflight'[q].pc = "answered"
          /\ HeldByOther(inflight[q].id, inflight[q].email)
          => inflight'[q].status = 400 /\ users' = users]_vars

\* C27: two requests passed their checks for the same email at the same time;
\* one wrote it and the unique index answered the other with 400
C27_Witness ==
  \E q \in ReqIds, u \in UserIds :
    /\ inflight[q].pc = "answered" /\ inflight[q].status = 400
    /\ users[u] # NoDoc /\ users[u].email = "e3"
    /\ u \notin nextUser

\* C28: in every reachable state each revocation-ledger entry's expiry equals
\* the exp claim of the token it holds, so an entry is pruned no earlier than the
\* moment its token expires naturally, and a revoked token is never accepted
\* because its entry was pruned early.
C28_EntryExpiryMirrorsToken ==
  /\ \A e \in ledger : e.expiresAt = JwtDecode(e.token).exp
  /\ \A t \in revoked :
       /\ (\A e \in ledger : e.token # t) => now >= JwtDecode(t).exp
       /\ \A storeOk \in BOOLEAN : ~protect(Bearer(t), "none", storeOk).pass

\* C28: the entry of a revoked token has been pruned, the token is past its
\* expiry and the gate answers it TOKEN_EXPIRED, while the entry of another
\* revoked token is still in the ledger
C28_Witness ==
  \E t, x \in revoked :
    /\ \A e \in ledger : e.token # t
    /\ now >= JwtDecode(t).exp
    /\ protect(Bearer(t), "none", TRUE).code = "TOKEN_EXPIRED"
    /\ \E e \in ledger : e.token = x

\* C29: token issuance fails only when the signing secret is unset, a fatal
\* condition at process start; once the process is running, issuing a token for
\* a stored principal that has passed the checks of login never fails as a
\* per-call error.
C29_IssuanceNeverFails ==
  \A email \in Emails, password \in Passwords, storeOk \in BOOLEAN :
    LET found == FindByEmail(email) IN
    found # NoDoc /\ PassesPasswordCheck(found, password)
      => LET o == login(email, password, storeOk) IN
         o.status = 200 /\ o.token # NoToken

\* C30: on a failed password check for P whose lockUntil is set but already in
\* the past, the counter is reset to 1 and lockUntil is cleared, so P becomes
\* Locked again only after 4 further consecutive failures; on a failed check with
\* no lock set the counter increases by exactly 1, and lockUntil is set to now +
\* 2 hours exactly when the counter reaches 5.
C30_LapsedLockStartsNewCycle ==
  /\ \A u \in UserIds : users[u] # NoDoc =>
       /\ Locked(users[u]) => users[u].loginAttempts >= MaxAttempts
       /\ users[u].lockUntil = Null => users[u].loginAttempts < MaxAttempts
  /\ \A email \in Emails, password \in Passwords, storeOk \in BOOLEAN :
       LET o == login(email, password, storeOk)
           before == FindByEmail(email)
       IN o.branch = "invalid_password" =>
            LET after == o.users[before.id] IN
            /\ before.lockUntil # Null /\ before.lockUntil < now
                 => after.loginAttempts = 1 /\ after.lockUntil = Null
            /\ before.lockUntil = Null
                 => /\ after.loginAttempts = before.loginAttempts + 1
                    /\ after.lockUntil =
                         IF after.loginAttempts = MaxAttempts THEN now + LockTime ELSE Null

\* C30: after six consecutive failures, the sixth after the lock had lapsed, the
\* counter is 1 and no lock is set
C30_Witness ==
  \E u \in UserIds :
    /\ users[u] # NoDoc
    /\ fails[u] = FailsCap
    /\ users[u].loginAttempts = 1
    /\ users[u].lockUntil = Null

\* the token has an entry in the revocation ledger
Listed(token) == \E e \in ledger : e.token = token

\* C31: while P is Locked, every request through the gate carrying any token of
\* P, including a valid and unrevoked token issued before the lock began, is
\* rejected with status 423 and code ACCOUNT_LOCKED; the same token is accepted
\* again once lockUntil has passed, without any new login.
C31_LockedTokensGet423 ==
  \A t \in held, storeOk \in BOOLEAN :
    LET g == protect(Bearer(t), "none", storeOk) IN
    users[t.payload.id] # NoDoc /\ Locked(users[t.payload.id])
      => g.status = 423 /\ g.code = "ACCOUNT_LOCKED"

\* C31 (amended): while P is Locked every request carrying a token of P is
\* rejected; it is rejected with 423 ACCOUNT_LOCKED when the token verifies, has
\* no ledger entry and P is active (a revoked, expired or invalid token and a
\* principal that is not active are answered 401 by the earlier checks).  Once
\* lockUntil has passed, a token of P that still verifies and has no ledger
\* entry is accepted again without any new login, P being active.
C31_LockedTokensRejected ==
  \A t \in held, storeOk \in BOOLEAN :
    LET g == protect(Bearer(t), "none", storeOk)
        P == users[t.payload.id]
        usable == ~Listed(t) /\ ~FailsVerification(t) /\ P.status = "active"
    IN P # NoDoc =>
         /\ Locked(P) => ~g.pass /\ g.status \in {401, 423}
         /\ Locked(P) /\ usable => g.status = 423 /\ g.code = "ACCOUNT_LOCKED"
         /\ Locked(P) /\ ~usable => g.status = 401
         /\ P.lockUntil # Null /\ P.lockUntil <= now /\ usable
              => g.pass /\ g.user.id = P.id

\* C31: the lock of P has lapsed, its counter still stands at the threshold (no
\* login since), and a token of P issued before the lock passes the gate
C31_Witness ==
  \E t \in held :
    LET P == users[t.payload.id] IN
    /\ P # NoDoc
    /\ P.lockUntil # Null /\ P.lockUntil <= now
    /\ P.loginAttempts >= MaxAttempts
    /\ t.payload.iat < P.lockUntil - LockTime + 1
    /\ protect(Bearer(t), "none", TRUE).pass

\* deleteUser has removed the principal: the store handed the id out and holds no
\* document under it (an ObjectId is never given to a second document)
Deleted(id) == id \notin nextUser /\ users[id] = NoDoc

\* C32: after deleteUser(P) succeeds, every request through the gate carrying a
\* token issued to P is rejected with 401 and never reaches a handler, although
\* the token is still validly signed, unexpired and absent from the revocation
\* ledger.
C32_DeletedPrincipalTokensRejected ==
  \A t \in held, storeErr \in StoreErrs, storeOk \in BOOLEAN :
    Deleted(t.payload.id) =>
      LET g == protect(Bearer(t), storeErr, storeOk) IN
      /\ ~g.pass /\ g.status = 401
      /\ ~Listed(t) /\ ~FailsVerification(t) /\ storeErr = "none"
           => g.branch \in {"user_not_found", "error"}
      /\ \A o \in {getProfile(Bearer(t), storeErr, storeOk),
                   logout(Bearer(t), storeErr, storeOk),
                   getAllUsers(Bearer(t), storeErr, storeOk)} :
           ~o.handler /\ o.status = 401 /\ o.users = users /\ o.ledger = ledger

\* C32: P has been deleted and a client still holds a token of P that is validly
\* signed, unexpired and not in the ledger; the gate answers it 401
C32_Witness ==
  \E t \in held :
    /\ Deleted(t.payload.id)
    /\ ~Listed(t) /\ ~FailsVerification(t)
    /\ protect(Bearer(t), "none", TRUE).status = 401
    /\ protect(Bearer(t), "none", TRUE).branch = "user_not_found"

\* the claims of the token a login would issue to the principal stored as doc
LoginClaims(doc) == generateAuthToken(Populate(doc)).payload

\* C33: the token returned by register carries the name of the assigned role and
\* the permission names of that role, i.e. the same role and permissions claims
\* that a login by the same principal immediately afterwards would produce.
C33_RegisterTokenLikeLoginToken ==
  \A id \in nextUser, email \in Emails, password \in Passwords, role \in RoleArgs,
     storeOk \in BOOLEAN :
    LET o == register(id, email, password, role, storeOk) IN
    o.token # NoToken =>
      LET claims == o.token.payload
          assigned == roles[o.users[id].role]
      IN /\ "role" \in DOMAIN claims
         /\ claims.role = assigned.name
         /\ claims.role = LoginClaims(o.users[id]).role
         /\ claims.permissions = assigned.permissions
         /\ claims.permissions = LoginClaims(o.users[id]).permissions

\* C34: a login for a principal whose status is inactive or suspended (and who
\* is not Locked) is rejected with 401 even when the password is correct; it
\* issues no token and leaves the failure counter, lockUntil and lastLogin
\* unchanged.
C34_InactiveLoginRejected ==
  \A email \in EmailInputs, password \in Passwords, storeOk \in BOOLEAN :
    LET P == FindByEmail(email)
        o == login(email, password, storeOk)
    IN P # NoDoc /\ P.status \in {"inactive", "suspended"} /\ ~Locked(P) =>
         /\ o.status = 401 /\ o.branch = "account_inactive"
         /\ o.token = NoToken
         /\ o.users[P.id].loginAttempts = P.loginAttempts
         /\ o.users[P.id].lockUntil = P.lockUntil
         /\ o.users[P.id].lastLogin = P.lastLogin
         /\ o.users = users /\ o.ledger = ledger

\* C34: a principal that is not active and not Locked, with failures counted
\* while it was active, gives its correct password and is answered 401
C34_Witness ==
  \E u \in UserIds, password \in Passwords :
    /\ users[u] # NoDoc
    /\ users[u].status \in {"inactive", "suspended"}
    /\ ~Locked(users[u])
    /\ users[u].loginAttempts > 0
    /\ comparePassword(users[u], password)
    /\ login(users[u].email, password, TRUE).status = 401
    /\ login(users[u].email, password, TRUE).token = NoToken

\* C35: requireSuperAdmin invokes the handler exactly when the privilege level of
\* the caller's primary role is at least 90 and otherwise answers 403 with code
\* REQUIRES_SUPER_ADMIN; the levels of additional roles and the caller's
\* permissions play no part, so deleteRole is reachable only by callers whose
\* primary role level is 90 or more.
C35_SuperAdminByPrimaryLevel ==
  \A t \in held, roleId \in RoleIds, storeOk \in BOOLEAN :
    LET g == protect(Bearer(t), "none", storeOk)
        v == requireSuperAdmin(g, storeOk)
        o == deleteRole(Bearer(t), "none", roleId, storeOk)
        P == users[t.payload.id]
        atLeast90 == roles[P.role] # NoDoc /\ roles[P.role].level >= SuperAdminLevel
    IN g.pass =>
         /\ v.pass <=> atLeast90
         /\ o.handler <=> atLeast90
         /\ ~atLeast90 => v.status = 403 /\ v.code = "REQUIRES_SUPER_ADMIN"

\* C36: a login attempt rejected because P is Locked leaves P's failure counter,
\* lockUntil and lastLogin unchanged and adds nothing to the revocation ledger:
\* attempts made during the lock window neither extend the lock nor increase
\* the counter.
C36_LockedLoginChangesNothing ==
  \A email \in EmailInputs, password \in Passwords, storeOk \in BOOLEAN :
    LET P == FindByEmail(email)
        o == login(email, password, storeOk)
    IN P # NoDoc /\ Locked(P) =>
         /\ o.status = 423 /\ o.branch = "account_locked"
         /\ o.token = NoToken
         /\ o.users[P.id].loginAttempts = P.loginAttempts
         /\ o.users[P.id].lockUntil = P.lockUntil
         /\ o.users[P.id].lastLogin = P.lastLogin
         /\ o.users = users /\ o.ledger = ledger

\* C36: P has been Locked for a while (the lock began before now) and a login
\* with either password is answered 423
C36_Witness ==
  \E u \in UserIds :
    /\ users[u] # NoDoc
    /\ Locked(users[u])
    /\ users[u].lockUntil - LockTime < now
    /\ users[u].loginAttempts = MaxAttempts
    /\ \A password \in Passwords : login(users[u].email, password, FALSE).status = 423

\* C37: in every interleaving of deleteRole(R) with assignRole, createUser or
\* register giving a principal the primary role R, the check-then-delete in
\* deleteRole never leaves a principal whose primary role refers to a role that
\* no longer exists: in every reachable state each principal's primary role
\* reference resolves to an existing role.
C37_PrimaryRoleResolves ==
  \A u \in UserIds : users[u] # NoDoc => roles[users[u].role] # NoDoc

\* C38: in every reachable state, sequential or concurrent, a principal has a
\* lock set (lockUntil non-null) only if its stored failure counter is at least
\* 5; in particular a successful login racing with a failed attempt on the same
\* principal never leaves P Locked with a counter below the threshold.
C38_LockOnlyAtThreshold ==
  \A u \in UserIds :
    users[u] # NoDoc /\ users[u].lockUntil # Null => users[u].loginAttempts >= MaxAttempts

\* the principals that were not seeded: where register is the only route that
\* creates principals, the ones register has created
Registered == {u \in UserIds : SeedUsers[u] = NoDoc /\ users[u] # NoDoc}

\* C39: the unauthenticated register operation cannot create a privileged
\* principal: a principal created by register, which requires no token, never
\* has a primary role whose privilege level is 90 or more and never holds
\* system:manage in its effective permissions, whatever role value the request
\* supplies.
C39_RegisterNeverPrivileged ==
  \A u \in Registered :
    /\ roles[users[u].role] # NoDoc => roles[users[u].role].level < SuperAdminLevel
    /\ "system:manage" \notin LivePermissions(u)

====
